---- MODULE Spec2Model ----
(***************************************************************************)
(* A model of the Stencila Node.js plugin runtime (class Plugin): the      *)
(* JSON-RPC dispatcher handleRequest, the capability methods and their     *)
(* JSON-RPC wrappers, the line transport listenStdio, the HTTP transport   *)
(* listenHttp and the selector run.                                        *)
(*                                                                         *)
(* Wire text is a sequence of JSON tokens (lexing is abstracted, grammar   *)
(* is not); JavaScript values are tagged records.                          *)
(***************************************************************************)
EXTENDS Integers, Sequences, FiniteSets, TLC

VARIABLES
    plugin,     \* the class instantiated: which capabilities are overridden, and how
    protocol,   \* process.env.STENCILA_TRANSPORT
    token,      \* process.env.STENCILA_TOKEN
    nodeMode,   \* what the Node runtime does with an unhandled promise rejection
    alive,      \* the process is running
    started,    \* the transports started so far, in order
    linesIn,    \* the lines read from standard input so far
    handlers,   \* one record per "line" callback started
    stdout,     \* the lines written by console.log, each with its handler
    stderr,     \* the errors written by console.error
    conns       \* one record per HTTP request received

vars == <<plugin, protocol, token, nodeMode, alive, started, linesIn, handlers, stdout,
          stderr, conns>>

(***************************************************************************)
(* JavaScript values                                                       *)
(***************************************************************************)
JNull == [t |-> "null"]
Undef == [t |-> "undefined"]
Func == [t |-> "function"]
Sym == [t |-> "symbol"]
BigInt == [t |-> "bigint"]
JBool(b) == [t |-> "bool", b |-> b]
JNum(n) == [t |-> "num", n |-> n]
JStr(s) == [t |-> "str", s |-> s]
JArr(a) == [t |-> "arr", a |-> a]
\* a string whose content is the JSON text ts (a sequence of tokens, see below)
JText(ts) == [t |-> "text", ts |-> ts]
\* an object is its own enumerable properties in insertion order
JObj(o) == [t |-> "obj", o |-> o]
Member(k, v) == [k |-> k, v |-> v]
\* an instance of Error (or of a subclass such as TypeError)
ErrObj(name, message) == [t |-> "error", name |-> name, message |-> message]

\* the value of o[k] for an own property of a plain object, undefined when absent
RECURSIVE Lookup(_, _)
Lookup(o, k) ==
    IF o = <<>> THEN Undef
    ELSE IF Head(o).k = k THEN Head(o).v
    ELSE Lookup(Tail(o), k)

HasKey(o, k) == \E i \in 1..Len(o) : o[i].k = k

\* o[k] = v on a plain object: an existing key keeps its position
SetMember(o, k, v) ==
    IF HasKey(o, k)
    THEN [i \in 1..Len(o) |-> IF o[i].k = k THEN Member(k, v) ELSE o[i]]
    ELSE Append(o, Member(k, v))

\* property read v[k] for the keys the dispatcher reads (id, method, params):
\* primitives and arrays have no such property
Get(v, k) == IF v.t = "obj" THEN Lookup(v.o, k) ELSE Undef

(***************************************************************************)
(* Number.prototype.toString for integers                                  *)
(***************************************************************************)
Digit == <<"0", "1", "2", "3", "4", "5", "6", "7", "8", "9">>

RECURSIVE NatStr(_)
NatStr(n) == IF n < 10 THEN Digit[n + 1] ELSE NatStr(n \div 10) \o Digit[(n % 10) + 1]

IntStr(n) == IF n < 0 THEN "-" \o NatStr(0 - n) ELSE NatStr(n)

(***************************************************************************)
(* ToString, as applied by template literals and by property access.       *)
(* It throws a TypeError for a symbol: CanString says whether it returns.  *)
(***************************************************************************)
CanString(v) == v.t # "symbol"

RECURSIVE JsToString(_), JoinElems(_)
JsToString(v) ==
    CASE v.t = "null" -> "null"
      [] v.t = "undefined" -> "undefined"
      [] v.t = "bool" -> IF v.b THEN "true" ELSE "false"
      [] v.t = "num" -> IntStr(v.n)
      [] v.t = "bigint" -> "1"
      [] v.t = "str" -> v.s
      [] v.t = "arr" -> JoinElems(v.a)
      [] v.t = "obj" -> "[object Object]"
      [] v.t = "function" -> "function () { [native code] }"
      \* (a string holding JSON text is never converted: its text is its tokens)
      [] v.t = "text" -> "[JSON text]"
      [] v.t = "error" -> IF v.message = "" THEN v.name ELSE v.name \o ": " \o v.message
      [] OTHER -> "Symbol()"
\* Array.prototype.join(","): null and undefined elements join as ""
JoinElems(a) ==
    IF a = <<>> THEN ""
    ELSE LET h == IF Head(a).t \in {"null", "undefined"} THEN "" ELSE JsToString(Head(a))
         IN  IF Len(a) = 1 THEN h ELSE h \o "," \o JoinElems(Tail(a))

(***************************************************************************)
(* JSON text: a sequence of tokens                                         *)
(***************************************************************************)
Tok(k) == [k |-> k]
TStr(s) == [k |-> "str", s |-> s]
TNum(n) == [k |-> "num", n |-> n]
\* a string literal whose content is itself the JSON text ts
TText(ts) == [k |-> "text", ts |-> ts]
\* a lexeme that is no JSON token (a bare word, a single quote, ...)
TBad == [k |-> "bad"]

ParseFail == [ok |-> FALSE, val |-> Undef, rest |-> <<>>]
ParseOk(v, rest) == [ok |-> TRUE, val |-> v, rest |-> rest]

\* recursive descent over the JSON grammar
RECURSIVE ParseValue(_), ParseElems(_, _), ParseMembers(_, _)
ParseValue(ts) ==
    IF ts = <<>> THEN ParseFail
    ELSE LET h == Head(ts)
             r == Tail(ts)
         IN  CASE h.k = "null" -> ParseOk(JNull, r)
               [] h.k = "true" -> ParseOk(JBool(TRUE), r)
               [] h.k = "false" -> ParseOk(JBool(FALSE), r)
               [] h.k = "num" -> ParseOk(JNum(h.n), r)
               [] h.k = "str" -> ParseOk(JStr(h.s), r)
               [] h.k = "text" -> ParseOk(JText(h.ts), r)
               [] h.k = "[" ->
                    IF r # <<>> /\ Head(r).k = "]" THEN ParseOk(JArr(<<>>), Tail(r))
                    ELSE ParseElems(r, <<>>)
               [] h.k = "{" ->
                    IF r # <<>> /\ Head(r).k = "}" THEN ParseOk(JObj(<<>>), Tail(r))
                    ELSE ParseMembers(r, <<>>)
               [] OTHER -> ParseFail
\* value ("," value)* "]"
ParseElems(ts, acc) ==
    LET e == ParseValue(ts)
    IN  IF ~e.ok \/ e.rest = <<>> THEN ParseFail
        ELSE LET sep == Head(e.rest).k
                 acc2 == Append(acc, e.val)
             IN  CASE sep = "]" -> ParseOk(JArr(acc2), Tail(e.rest))
                   [] sep = "," -> ParseElems(Tail(e.rest), acc2)
                   [] OTHER -> ParseFail
\* string ":" value ("," string ":" value)* "}"
ParseMembers(ts, acc) ==
    IF Len(ts) < 2 \/ ts[1].k # "str" \/ ts[2].k # ":" THEN ParseFail
    ELSE LET e == ParseValue(SubSeq(ts, 3, Len(ts)))
         IN  IF ~e.ok \/ e.rest = <<>> THEN ParseFail
             ELSE LET sep == Head(e.rest).k
                      acc2 == SetMember(acc, ts[1].s, e.val)
                  IN  CASE sep = "}" -> ParseOk(JObj(acc2), Tail(e.rest))
                        [] sep = "," -> ParseMembers(Tail(e.rest), acc2)
                        [] OTHER -> ParseFail

\* (mutant) a parse that stops at the end of the first value and ignores what follows
MutJsonParse(ts) ==
    LET r == ParseValue(ts)
    IN  IF r.ok THEN [ok |-> TRUE, val |-> r.val] ELSE [ok |-> FALSE, val |-> Undef]

\* JSON.parse: [ok, val]; ok = FALSE is a thrown SyntaxError
JsonParse(ts) ==
    LET r == ParseValue(ts)
    IN  IF r.ok /\ r.rest = <<>> THEN [ok |-> TRUE, val |-> r.val]
        ELSE [ok |-> FALSE, val |-> Undef]

(***************************************************************************)
(* JSON.stringify                                                          *)
(***************************************************************************)
\* values JSON.stringify leaves out of an object and turns to null in an array
Unserialized(v) == v.t \in {"undefined", "function", "symbol"}

\* JSON.stringify throws a TypeError on a BigInt anywhere in the value
RECURSIVE HasBigInt(_)
HasBigInt(v) ==
    CASE v.t = "bigint" -> TRUE
      [] v.t = "arr" -> \E i \in 1..Len(v.a) : HasBigInt(v.a[i])
      [] v.t = "obj" -> \E i \in 1..Len(v.o) : HasBigInt(v.o[i].v)
      [] OTHER -> FALSE

RECURSIVE StringifyVal(_), StringifyElems(_), StringifyMembers(_, _)
StringifyVal(v) ==
    CASE v.t = "null" -> <<Tok("null")>>
      [] v.t = "bool" -> <<Tok(IF v.b THEN "true" ELSE "false")>>
      [] v.t = "num" -> <<TNum(v.n)>>
      [] v.t = "str" -> <<TStr(v.s)>>
      [] v.t = "text" -> <<TText(v.ts)>>
      [] v.t = "arr" -> <<Tok("[")>> \o StringifyElems(v.a) \o <<Tok("]")>>
      [] v.t = "obj" -> <<Tok("{")>> \o StringifyMembers(v.o, TRUE) \o <<Tok("}")>>
      \* an Error has no own enumerable property
      [] v.t = "error" -> <<Tok("{"), Tok("}")>>
      [] OTHER -> <<Tok("null")>>
StringifyElems(a) ==
    IF a = <<>> THEN <<>>
    ELSE StringifyVal(Head(a)) \o
         (IF Len(a) = 1 THEN <<>> ELSE <<Tok(",")>> \o StringifyElems(Tail(a)))
StringifyMembers(o, first) ==
    IF o = <<>> THEN <<>>
    ELSE IF Unserialized(Head(o).v) THEN StringifyMembers(Tail(o), first)
    ELSE (IF first THEN <<>> ELSE <<Tok(",")>>) \o
         <<TStr(Head(o).k), Tok(":")>> \o StringifyVal(Head(o).v) \o
         StringifyMembers(Tail(o), FALSE)

\* JSON.stringify of a value that holds no BigInt and is itself serialized
JsonStringify(v) == StringifyVal(v)

(***************************************************************************)
(* The capabilities of class Plugin and their JSON-RPC wrappers            *)
(***************************************************************************)
Caps == {"health", "kernelStart", "kernelStop", "kernelInfo", "kernelPackages",
         "kernelExecute", "kernelEvaluate", "kernelList", "kernelGet", "kernelSet",
         "kernelRemove", "assistantSystemPrompt", "assistantPerformTask"}

\* the snake_case wrappers: the capability each one calls
WireCap ==
    [kernel_start |-> "kernelStart", kernel_stop |-> "kernelStop",
     kernel_info |-> "kernelInfo", kernel_packages |-> "kernelPackages",
     kernel_execute |-> "kernelExecute", kernel_evaluate |-> "kernelEvaluate",
     kernel_list |-> "kernelList", kernel_get |-> "kernelGet",
     kernel_set |-> "kernelSet", kernel_remove |-> "kernelRemove",
     assistant_system_prompt |-> "assistantSystemPrompt",
     assistant_perform_task |-> "assistantPerformTask"]

\* the properties each wrapper destructures from params, in the order it passes them on
WireParams ==
    [kernel_start |-> <<"kernel">>, kernel_stop |-> <<"instance">>,
     kernel_info |-> <<"instance">>, kernel_packages |-> <<"instance">>,
     kernel_execute |-> <<"code", "instance">>, kernel_evaluate |-> <<"code", "instance">>,
     kernel_list |-> <<"instance">>, kernel_get |-> <<"name", "instance">>,
     kernel_set |-> <<"name", "value", "instance">>, kernel_remove |-> <<"name", "instance">>,
     assistant_system_prompt |-> <<"task", "options", "assistant">>,
     assistant_perform_task |-> <<"task", "options", "assistant">>]

WireNames == DOMAIN WireCap

\* the other methods of class Plugin
CoreMethods == {"handleRequest", "listenStdio", "listenHttp", "run"}

\* the function-valued properties every object inherits from Object.prototype,
\* and the constructor property of the class prototype
InheritedMethods ==
    {"constructor", "toString", "toLocaleString", "valueOf", "hasOwnProperty",
     "isPrototypeOf", "propertyIsEnumerable", "__defineGetter__", "__defineSetter__",
     "__lookupGetter__", "__lookupSetter__"}

\* typeof this[key] === "function"
IsFunctionMember(key) ==
    key \in Caps \cup WireNames \cup CoreMethods \cup InheritedMethods

(***************************************************************************)
(* Outcome of calling a function: it returned or fulfilled with val        *)
(* ("ok"), threw or rejected with val ("err"), or is a promise that never  *)
(* settles ("hang").                                                       *)
(***************************************************************************)
Ok(v) == [kind |-> "ok", val |-> v]
Err(v) == [kind |-> "err", val |-> v]
Hang == [kind |-> "hang", val |-> Undef]

\* (the backquote of the source's messages is written ' in the strings of this module)
KernelInfoMessage ==
    "Method 'kernelInfo' must be overridden by plugins that provide one or more kernels"
PerformTaskMessage ==
    "Method 'assistantPerformTask' must be implemented by plugins that provide an assistant"

\* (mutant) kernelInfo and assistantPerformTask return nothing instead of throwing
MutDefault(cap, args, now) ==
    CASE cap = "health" ->
            Ok(JObj(<<Member("timestamp", JNum(now)), Member("status", JStr("OK"))>>))
      [] cap = "kernelStart" -> Ok(JObj(<<Member("instance", args[1])>>))
      [] cap \in {"kernelPackages", "kernelList"} -> Ok(JArr(<<>>))
      [] cap = "kernelExecute" ->
            Ok(JObj(<<Member("outputs", JArr(<<>>)), Member("messages", JArr(<<>>))>>))
      [] cap = "kernelEvaluate" ->
            Ok(JObj(<<Member("output", JArr(<<>>)), Member("messages", JArr(<<>>))>>))
      [] cap = "kernelGet" -> Ok(JNull)
      [] cap = "assistantSystemPrompt" -> Ok(JStr(""))
      [] OTHER -> Ok(Undef)

\* (mutant) kernelEvaluate answers with the member outputs, as kernelExecute does
MutDefaultEvaluate(cap, args, now) ==
    CASE cap = "health" ->
            Ok(JObj(<<Member("timestamp", JNum(now)), Member("status", JStr("OK"))>>))
      [] cap = "kernelStart" -> Ok(JObj(<<Member("instance", args[1])>>))
      [] cap \in {"kernelStop", "kernelSet", "kernelRemove"} -> Ok(Undef)
      [] cap = "kernelInfo" -> Err(ErrObj("Error", KernelInfoMessage))
      [] cap \in {"kernelPackages", "kernelList"} -> Ok(JArr(<<>>))
      [] cap \in {"kernelExecute", "kernelEvaluate"} ->
            Ok(JObj(<<Member("outputs", JArr(<<>>)), Member("messages", JArr(<<>>))>>))
      [] cap = "kernelGet" -> Ok(JNull)
      [] cap = "assistantSystemPrompt" -> Ok(JStr(""))
      [] OTHER -> Err(ErrObj("Error", PerformTaskMessage))

\* (mutant) health answers the time as a date string, not as a number of seconds
MutDefaultHealth(cap, args, now) ==
    CASE cap = "health" ->
            Ok(JObj(<<Member("timestamp", JStr("2023-11-14T22:13:20.000Z")),
                      Member("status", JStr("OK"))>>))
      [] cap = "kernelStart" -> Ok(JObj(<<Member("instance", args[1])>>))
      [] cap \in {"kernelStop", "kernelSet", "kernelRemove"} -> Ok(Undef)
      [] cap = "kernelInfo" -> Err(ErrObj("Error", KernelInfoMessage))
      [] cap \in {"kernelPackages", "kernelList"} -> Ok(JArr(<<>>))
      [] cap = "kernelExecute" ->
            Ok(JObj(<<Member("outputs", JArr(<<>>)), Member("messages", JArr(<<>>))>>))
      [] cap = "kernelEvaluate" ->
            Ok(JObj(<<Member("output", JArr(<<>>)), Member("messages", JArr(<<>>))>>))
      [] cap = "kernelGet" -> Ok(JNull)
      [] cap = "assistantSystemPrompt" -> Ok(JStr(""))
      [] OTHER -> Err(ErrObj("Error", PerformTaskMessage))

\* the bodies of the capability methods of the base class
Default(cap, args, now) ==
    CASE cap = "health" ->
            Ok(JObj(<<Member("timestamp", JNum(now)), Member("status", JStr("OK"))>>))
      [] cap = "kernelStart" -> Ok(JObj(<<Member("instance", args[1])>>))
      [] cap = "kernelStop" -> Ok(Undef)
      [] cap = "kernelInfo" -> Err(ErrObj("Error", KernelInfoMessage))
      [] cap = "kernelPackages" -> Ok(JArr(<<>>))
      [] cap = "kernelExecute" ->
            Ok(JObj(<<Member("outputs", JArr(<<>>)), Member("messages", JArr(<<>>))>>))
      [] cap = "kernelEvaluate" ->
            Ok(JObj(<<Member("output", JArr(<<>>)), Member("messages", JArr(<<>>))>>))
      [] cap = "kernelList" -> Ok(JArr(<<>>))
      [] cap = "kernelGet" -> Ok(JNull)
      [] cap = "kernelSet" -> Ok(Undef)
      [] cap = "kernelRemove" -> Ok(Undef)
      [] cap = "assistantSystemPrompt" -> Ok(JStr(""))
      [] OTHER -> Err(ErrObj("Error", PerformTaskMessage))

\* reading a property of null or undefined throws a TypeError
Nullish(v) == v.t \in {"null", "undefined"}
ReadTypeError == ErrObj("TypeError", "Cannot read properties of undefined")
DestructureTypeError == ErrObj("TypeError", "Cannot destructure property of undefined")

\* the overriding methods of ExamplePlugin
ExampleOverride(cap, args) ==
    CASE cap = "kernelInfo" ->
            Ok(JObj(<<Member("type", JStr("SoftwareApplication")), Member("name", JStr("echo"))>>))
      [] cap = "kernelExecute" ->
            Ok(JObj(<<Member("outputs", JArr(<<args[1]>>)), Member("messages", JArr(<<>>))>>))
      [] cap = "assistantSystemPrompt" -> Ok(JStr("You are an assistant that echos back the task"))
      [] OTHER ->
            IF Nullish(args[1]) THEN Err(ReadTypeError)
            ELSE LET sp == Get(args[1], "system_prompt")
                     heading(s) == JObj(<<Member("type", JStr("Heading")), Member("level", JNum(1)),
                                          Member("content", JArr(<<JObj(<<Member("type", JStr("Text")),
                                                                         Member("value", JStr(s))>>)>>))>>)
                     block(c, l) == JObj(<<Member("type", JStr("CodeBlock")), Member("code", c),
                                           Member("programmingLanguage", JStr(l))>>)
                 IN  Ok(JObj(<<Member("nodes", JArr(<<
                        heading("Task"),
                        block(IF Unserialized(args[1]) THEN Undef ELSE JText(StringifyVal(args[1])), "json"),
                        heading("System prompt"),
                        block(IF Nullish(sp) THEN JStr("") ELSE sp, "markdown")>>))>>))

(***************************************************************************)
(* A plugin class is given by how it overrides each capability:            *)
(*   "default"  not overridden                                             *)
(*   "example"  as ExamplePlugin overrides it                              *)
(*   another tag: an overriding method with that outcome                   *)
(***************************************************************************)
OverrideTags == {"undefined", "function", "symbol", "bigint", "value",
                 "throwError", "throwSymbol", "hang"}

OverrideValue == JObj(<<Member("x", JNum(1))>>)

Override(tag) ==
    CASE tag = "undefined" -> Ok(Undef)
      [] tag = "function" -> Ok(Func)
      [] tag = "symbol" -> Ok(Sym)
      [] tag = "bigint" -> Ok(BigInt)
      [] tag = "value" -> Ok(OverrideValue)
      [] tag = "throwError" -> Err(ErrObj("Error", "boom"))
      [] tag = "throwSymbol" -> Err(Sym)
      [] OTHER -> Hang

\* (mutant) the method of the base class is called, whatever the instance overrides
MutCallCap(p, cap, args, now) == Default(cap, args, now)

\* this[cap](...args), resolved on the instance (an override shadows the base method)
CallCap(p, cap, args, now) ==
    CASE p[cap] = "default" -> Default(cap, args, now)
      [] p[cap] = "example" -> ExampleOverride(cap, args)
      [] OTHER -> Override(p[cap])

BasePlugin == [c \in Caps |-> "default"]

ExamplePlugin ==
    [c \in Caps |->
        IF c \in {"kernelInfo", "kernelExecute", "assistantSystemPrompt", "assistantPerformTask"}
        THEN "example" ELSE "default"]

\* the name of the class of the instance
ClassName(p) == IF p = BasePlugin THEN "Plugin" ELSE "ExamplePlugin"

(***************************************************************************)
(* handleRequest                                                           *)
(***************************************************************************)
ParseErrorCode == -32700
MethodNotFoundCode == -32601
InternalErrorCode == -32603

\* function errorResponse(id, code, message)
errorResponse(id, code, message) ==
    JsonStringify(JObj(<<Member("jsonrpc", JStr("2.0")), Member("id", id),
                         Member("error", JObj(<<Member("code", JNum(code)),
                                                Member("message", JStr(message))>>))>>))

\* (mutant) no substitution for an absent result
MutCoalesce(result) == result

\* result ?? null
Coalesce(result) == IF Nullish(result) THEN JNull ELSE result

\* (mutant) result || null: every falsy result is replaced by null
MutSuccessResponse(id, result) ==
    JsonStringify(JObj(<<Member("jsonrpc", JStr("2.0")), Member("id", id),
                         Member("result",
                                IF result \in {JNull, Undef, JBool(FALSE), JNum(0), JStr("")}
                                THEN JNull ELSE result)>>))

\* function successResponse(id, result), for a result JSON.stringify accepts
successResponse(id, result) ==
    JsonStringify(JObj(<<Member("jsonrpc", JStr("2.0")), Member("id", id),
                         Member("result", Coalesce(result))>>))

\* (mutant) a message that does not name the method
MutNotFoundMessage(method) == "Method not found"

\* `Method \`${method}\` not found`
NotFoundMessage(method) == "Method '" \o JsToString(method) \o "' not found"

\* `Internal error: ${error}`
InternalMessage(error) == "Internal error: " \o JsToString(error)

\* the text JSON.parse sees when it is given the value v: String(v), as tokens.
\* (The plain strings of this model are words, which are not JSON text.)
RECURSIVE Lex(_), LexElems(_)
Lex(v) ==
    CASE v.t = "text" -> v.ts
      [] v.t = "null" -> <<Tok("null")>>
      [] v.t = "bool" -> <<Tok(IF v.b THEN "true" ELSE "false")>>
      [] v.t = "num" -> <<TNum(v.n)>>
      [] v.t = "arr" -> LexElems(v.a)
      [] v.t = "obj" -> <<Tok("["), TBad, TBad, Tok("]")>>
      [] OTHER -> <<TBad>>
LexElems(a) ==
    IF a = <<>> THEN <<>>
    ELSE (IF Nullish(Head(a)) THEN <<>> ELSE Lex(Head(a))) \o
         (IF Len(a) = 1 THEN <<>> ELSE <<Tok(",")>> \o LexElems(Tail(a)))

Call(cap, args) == [cap |-> cap, args |-> args]

\* what a call made by the dispatcher did: its outcome, whether the outcome was
\* there when the call returned (a synchronous throw), the capability methods
\* that ran, and the transports it started
Done(out, sync, calls, effects) ==
    [out |-> out, sync |-> sync, calls |-> calls, effects |-> effects]

\* (mutant) the members of params are passed as they come, first to third
MutWireArgs(name, params) ==
    [i \in 1..3 |->
        IF params.t = "obj" /\ i <= Len(params.o) /\ i <= Len(WireParams[name])
        THEN params.o[i].v ELSE Undef]

\* the arguments a wrapper passes on: the destructured properties in order
WireArgs(name, params) ==
    [i \in 1..3 |-> IF i <= Len(WireParams[name]) THEN Get(params, WireParams[name][i]) ELSE Undef]

\* what handleRequest did with one text
Handled(out, sync, parsed, id, method, called, calls, effects) ==
    [out |-> out, sync |-> sync, parsed |-> parsed, id |-> id, method |-> method,
     called |-> called, calls |-> calls, effects |-> effects]

\* the completion of handleRequest after `yield func.call(this, params)` settled
\* with d.out: the try block's successResponse or the catch block's errorResponse
Respond(id, d) ==
    CASE d.out.kind = "hang" -> Hang
      [] d.out.kind = "ok" /\ ~HasBigInt(d.out.val) -> Ok(JText(successResponse(id, d.out.val)))
      [] d.out.kind = "ok" ->
            Ok(JText(errorResponse(id, InternalErrorCode,
                  InternalMessage(ErrObj("TypeError", "Do not know how to serialize a BigInt")))))
      [] CanString(d.out.val) ->
            Ok(JText(errorResponse(id, InternalErrorCode, InternalMessage(d.out.val))))
      [] OTHER -> Err(ErrObj("TypeError", "Cannot convert a Symbol value to a string"))

RECURSIVE Invoke(_, _, _, _, _), handleRequest(_, _, _, _)
\* (mutant) the wrappers take {} for params that are absent: ({instance} = {}) => ...
MutInvoke(p, env, key, params, now) ==
    CASE key \in Caps ->
            LET args == <<params, Undef, Undef>>
            IN  Done(CallCap(p, key, args, now), FALSE, <<Call(key, args)>>, <<>>)
      [] key \in WireNames ->
            IF params = JNull THEN Done(Err(DestructureTypeError), TRUE, <<>>, <<>>)
            ELSE LET args == WireArgs(key, params)
                 IN  Done(CallCap(p, WireCap[key], args, now), FALSE,
                          <<Call(WireCap[key], args)>>, <<>>)
      [] key = "handleRequest" ->
            LET h == handleRequest(p, env, Lex(params), now)
            IN  Done(h.out, FALSE, h.calls, h.effects)
      [] key = "listenStdio" -> Done(Ok(Undef), FALSE, <<>>, <<"stdio">>)
      [] key = "listenHttp" -> Done(Ok(Undef), FALSE, <<>>, <<"http">>)
      [] key = "run" ->
            CASE env = "stdio" -> Done(Ok(Undef), FALSE, <<>>, <<"stdio">>)
              [] env = "http" -> Done(Ok(Undef), FALSE, <<>>, <<"httpSamePort">>)
              [] OTHER -> Done(Err(ErrObj("Error", "Unknown protocol: " \o env)), FALSE, <<>>, <<>>)
      [] key = "constructor" ->
            Done(Err(ErrObj("TypeError", "Class constructor " \o ClassName(p)
                                         \o " cannot be invoked without 'new'")), TRUE, <<>>, <<>>)
      [] key \in {"toString", "toLocaleString"} -> Done(Ok(JStr("[object Object]")), FALSE, <<>>, <<>>)
      [] key = "valueOf" -> Done(Ok(JObj(<<>>)), FALSE, <<>>, <<>>)
      [] key \in {"hasOwnProperty", "isPrototypeOf", "propertyIsEnumerable"} ->
            Done(Ok(JBool(FALSE)), FALSE, <<>>, <<>>)
      \* Object.prototype has the accessor property __proto__ and no other
      [] key \in {"__lookupGetter__", "__lookupSetter__"} ->
            Done(Ok(IF params = JStr("__proto__") THEN Func ELSE Undef), FALSE, <<>>, <<>>)
      [] OTHER -> Done(Err(ErrObj("TypeError", "Expecting function")), TRUE, <<>>, <<>>)

\* func.call(this, params) for func = this[key]
Invoke(p, env, key, params, now) ==
    CASE key \in Caps ->
            LET args == <<params, Undef, Undef>>
            IN  Done(CallCap(p, key, args, now), FALSE, <<Call(key, args)>>, <<>>)
      [] key \in WireNames ->
            IF Nullish(params) THEN Done(Err(DestructureTypeError), TRUE, <<>>, <<>>)
            ELSE LET args == WireArgs(key, params)
                 IN  Done(CallCap(p, WireCap[key], args, now), FALSE,
                          <<Call(WireCap[key], args)>>, <<>>)
      [] key = "handleRequest" ->
            LET h == handleRequest(p, env, Lex(params), now)
            IN  Done(h.out, FALSE, h.calls, h.effects)
      [] key = "listenStdio" -> Done(Ok(Undef), FALSE, <<>>, <<"stdio">>)
      [] key = "listenHttp" -> Done(Ok(Undef), FALSE, <<>>, <<"http">>)
      [] key = "run" ->
            CASE env = "stdio" -> Done(Ok(Undef), FALSE, <<>>, <<"stdio">>)
              [] env = "http" -> Done(Ok(Undef), FALSE, <<>>, <<"httpSamePort">>)
              [] OTHER -> Done(Err(ErrObj("Error", "Unknown protocol: " \o env)), FALSE, <<>>, <<>>)
      [] key = "constructor" ->
            Done(Err(ErrObj("TypeError", "Class constructor " \o ClassName(p)
                                         \o " cannot be invoked without 'new'")), TRUE, <<>>, <<>>)
      [] key \in {"toString", "toLocaleString"} -> Done(Ok(JStr("[object Object]")), FALSE, <<>>, <<>>)
      [] key = "valueOf" -> Done(Ok(JObj(<<>>)), FALSE, <<>>, <<>>)
      [] key \in {"hasOwnProperty", "isPrototypeOf", "propertyIsEnumerable"} ->
            Done(Ok(JBool(FALSE)), FALSE, <<>>, <<>>)
      \* Object.prototype has the accessor property __proto__ and no other
      [] key \in {"__lookupGetter__", "__lookupSetter__"} ->
            Done(Ok(IF params = JStr("__proto__") THEN Func ELSE Undef), FALSE, <<>>, <<>>)
      [] OTHER -> Done(Err(ErrObj("TypeError", "Expecting function")), TRUE, <<>>, <<>>)

\* handleRequest(requestJson) on an instance p, run to its completion
handleRequest(p, env, requestJson, now) ==
    LET parse == JsonParse(requestJson)
        request == parse.val
    IN  IF ~parse.ok
        THEN Handled(Ok(JText(errorResponse(JNull, ParseErrorCode, "Parse error"))),
                     TRUE, FALSE, Undef, Undef, "", <<>>, <<>>)
        ELSE IF Nullish(request)
        THEN Handled(Err(DestructureTypeError), TRUE, TRUE, Undef, Undef, "", <<>>, <<>>)
        ELSE LET id == Get(request, "id")
                 method == Get(request, "method")
                 params == Get(request, "params")
                 key == JsToString(method)
             IN  IF IsFunctionMember(key)
                 THEN LET d == Invoke(p, env, key, params, now)
                      IN  Handled(Respond(id, d), d.sync, TRUE, id, method, key, d.calls, d.effects)
                 ELSE Handled(Ok(JText(errorResponse(id, MethodNotFoundCode, NotFoundMessage(method)))),
                              TRUE, TRUE, id, method, "", <<>>, <<>>)

(***************************************************************************)
(* Bounds and input alphabets                                              *)
(***************************************************************************)
MaxLines == 2
MaxConns == 2
MaxChunks == 2
MaxStarted == 2

\* Date.now() / 1000 at the moment of a call
Clock == {1700000000, 1700000001}

\* STENCILA_TRANSPORT ("undefined" when the variable is not set)
Protocols == {"stdio", "http", "ftp", "undefined"}

\* STENCILA_TOKEN (undefined when the variable is not set)
Secret == JStr("s3cret")
Tokens == {Secret, JStr(""), JStr("a b"), Undef}

\* subclasses of Plugin whose kernelGet and health are overridden with the outcome tag
OddPlugin(tag) == [c \in Caps |-> IF c \in {"kernelGet", "health"} THEN tag ELSE "default"]

Plugins == {BasePlugin, ExamplePlugin} \cup {OddPlugin(tag) : tag \in OverrideTags}

\* the text of a request object as the host writes it (an absent field is left out)
Req(id, method, params) ==
    JsonStringify(JObj(<<Member("jsonrpc", JStr("2.0")), Member("id", id),
                         Member("method", method), Member("params", params)>>))

FullParams ==
    JObj(<<Member("kernel", JStr("k")), Member("instance", JStr("i1")),
           Member("code", JStr("1+1")), Member("name", JStr("x")), Member("value", JNum(42)),
           Member("task", JObj(<<Member("system_prompt", JStr("sp"))>>)),
           Member("options", JObj(<<>>)), Member("assistant", JStr("a"))>>)

ParamsAlphabet == {FullParams, JObj(<<>>), Undef, JNull, JNum(5)}

\* names that are no member of a Plugin instance, or a member that is no function
UnknownNames == {"nope", "Health", "kernel", "kernelstart", "KERNEL_START", "kernel_", "", "__proto__"}

MethodNames == Caps \cup WireNames \cup CoreMethods \cup InheritedMethods \cup UnknownNames

\* texts JSON.parse rejects
MalformedTexts ==
    { <<>>,
      <<TBad>>,
      <<Tok("{"), TStr("id"), Tok(":"), TNum(1), Tok(",")>>,
      <<Tok("{"), TStr("id"), Tok(":"), TNum(1), Tok("}"), Tok("}")>>,
      <<Tok("{"), TNum(1), Tok(":"), TNum(1), Tok("}")>>,
      <<Tok("["), TNum(1), Tok(","), Tok("]")>>,
      <<Tok("{"), TStr("method"), Tok(":"), TStr("health")>> }

\* JSON texts of values that are no object
NonObjectTexts ==
    { <<Tok("null")>>, <<TNum(5)>>, <<TStr("health")>>, <<Tok("true")>>,
      <<Tok("["), Tok("]")>>, <<Tok("["), TStr("health"), Tok("]")>> }

\* JSON texts of objects that are no request envelope
NonEnvelopeTexts ==
    { Req(Undef, Undef, Undef), Req(JNum(1), Undef, Undef), Req(JNum(1), Undef, FullParams),
      Req(JNum(1), JNum(5), FullParams), Req(JNum(1), JNull, FullParams),
      Req(JNum(1), JObj(<<>>), FullParams), Req(JNum(1), JArr(<<JStr("health")>>), FullParams),
      Req(JNum(1), JStr("health"), JStr("x")) }

\* a request whose params is a string holding another request
NestedTexts ==
    { Req(JNum(1), JStr("handleRequest"), JText(Req(JNum(2), JStr("kernel_info"), FullParams))),
      Req(JNum(1), JStr("handleRequest"), JText(<<Tok("null")>>)),
      Req(JNum(1), JStr("__lookupGetter__"), JStr("__proto__")) }

RequestTexts ==
    { Req(JNum(1), JStr(m), ps) : m \in MethodNames, ps \in ParamsAlphabet } \cup
    { Req(id, JStr(m), FullParams) :
        id \in {JStr("1"), JNull, Undef, JObj(<<>>)},
        m \in {"health", "kernel_info", "kernelStop", "nope", "toString"} }

\* requests written without the member jsonrpc
BareReq(id, method, params) ==
    JsonStringify(JObj(<<Member("id", id), Member("method", method), Member("params", params)>>))

HealthScenario == BareReq(JStr("1"), JStr("health"), JObj(<<>>))

ExecuteScenario ==
    BareReq(JStr("2"), JStr("kernelExecute"),
            JObj(<<Member("code", JStr("1+1")), Member("instance", JStr("k1"))>>))

ScenarioTexts == {HealthScenario, ExecuteScenario}

\* JSON values of every kind, flat and nested
WireValues ==
    { JNull, JBool(TRUE), JBool(FALSE), JNum(0), JNum(-7), JStr(""), JStr("python"),
      JArr(<<>>), JObj(<<>>),
      JArr(<<JNum(1), JStr("a"), JNull, JArr(<<>>)>>),
      JObj(<<Member("a", JNull),
             Member("b", JArr(<<JObj(<<Member("c", JBool(FALSE))>>)>>))>>) }

WireIds == {JNum(7), JStr("7")}

\* requests whose result holds a value of the request: kernelStart answers {instance: kernel}
EchoTexts ==
    { Req(id, JStr("kernel_start"), JObj(<<Member("kernel", v)>>)) : id \in WireIds, v \in WireValues }
    \cup { Req(id, JStr("kernelStart"), v) : id \in WireIds, v \in WireValues }

\* every text given to the dispatcher on its own
RawInputs ==
    MalformedTexts \cup NonObjectTexts \cup NonEnvelopeTexts \cup NestedTexts \cup RequestTexts
    \cup ScenarioTexts \cup EchoTexts

\* the lines of a conversation of several requests
LineInputs ==
    { <<Tok("{"), TStr("id"), Tok(":"), TNum(1), Tok(",")>>,
      <<Tok("null")>>,
      Req(JNum(1), JStr("health"), JObj(<<>>)),
      Req(JNum(2), JStr("kernel_get"), FullParams),
      Req(JNum(3), JStr("kernel_info"), FullParams),
      Req(JNum(4), JStr("nope"), JObj(<<>>)) }

(***************************************************************************)
(* The process: run, listenStdio, listenHttp                               *)
(***************************************************************************)
\* a transport started by listenStdio or listenHttp(port, token)
Server(t, port, tok) == [t |-> t, port |-> port, token |-> tok]

\* the transports a call started, as listenStdio, listenHttp(params) and run start them
Effect(e, tok) ==
    CASE e = "stdio" -> Server("stdio", "", Undef)
      [] e = "http" -> Server("http", "params", Undef)
      [] OTHER -> Server("http", "env", tok)

Effects(es, tok) == [i \in 1..Len(es) |-> Effect(es[i], tok)]

RECURSIVE Repeat(_, _)
Repeat(q, n) == IF n = 0 THEN <<>> ELSE q \o Repeat(q, n - 1)

StdioListeners == {i \in 1..Len(started) : started[i].t = "stdio"}

\* an HTTP server that could bind its port
Listening(i) ==
    /\ i \in 1..Len(started)
    /\ started[i].t = "http"
    /\ ~\E j \in 1..(i - 1) : started[j].t = "http" /\ started[j].port = started[i].port

\* a second server on a port in use emits an error event nobody listens for
PortClash == \E i \in 1..Len(started) : started[i].t = "http" /\ ~Listening(i)

Init ==
    /\ plugin \in Plugins
    /\ protocol \in Protocols
    /\ token \in Tokens
    /\ nodeMode \in {"throw", "warn"}
    /\ alive = TRUE
    /\ started = <<>>
    /\ linesIn = <<>>
    /\ handlers = <<>>
    /\ stdout = <<>>
    /\ stderr = <<>>
    /\ conns = <<>>

\* (mutant) a selector that is neither stdio nor http falls back to the line transport
MutRun ==
    /\ alive
    /\ started = <<>>
    /\ stderr = <<>>
    /\ CASE protocol = "http" ->
                /\ started' = <<Server("http", "env", token)>>
                /\ UNCHANGED <<alive, stderr>>
         [] OTHER ->
                /\ started' = <<Server("stdio", "", Undef)>>
                /\ UNCHANGED <<alive, stderr>>
    /\ UNCHANGED <<plugin, protocol, token, nodeMode, linesIn, handlers, stdout, conns>>

\* new ExamplePlugin().run().catch(console.error)
Run ==
    /\ alive
    /\ started = <<>>
    /\ stderr = <<>>
    /\ CASE protocol = "stdio" ->
                /\ started' = <<Server("stdio", "", Undef)>>
                /\ UNCHANGED <<alive, stderr>>
         [] protocol = "http" ->
                /\ started' = <<Server("http", "env", token)>>
                /\ UNCHANGED <<alive, stderr>>
         [] OTHER ->
                \* nothing keeps the event loop alive: the process ends
                /\ stderr' = <<"Error: Unknown protocol: " \o protocol>>
                /\ alive' = FALSE
                /\ UNCHANGED started
    /\ UNCHANGED <<plugin, protocol, token, nodeMode, linesIn, handlers, stdout, conns>>

\* the state of one "line" callback: the line, the interface that emitted it,
\* what handleRequest does with it, and how far the callback is
Handler(line, listener, h) ==
    [line |-> line, listener |-> listener, h |-> h,
     stage |-> IF ~h.sync THEN "awaiting"
               ELSE IF h.out.kind = "ok" THEN "ready" ELSE "rejected"]

\* rl.on("line", ...): every interface reading standard input emits the line, and
\* each callback runs handleRequest up to its first suspension
ReadLine(raw, now, max) ==
    LET h == handleRequest(plugin, protocol, raw, now)
        ls == StdioListeners
        n == Cardinality(ls)
        line == Len(linesIn) + 1
        order == CHOOSE f \in [1..n -> ls] : \A a, b \in 1..n : a < b => f[a] < f[b]
    IN  /\ alive
        /\ n > 0
        /\ Len(linesIn) < max
        /\ Len(started) + n * Len(h.effects) <= MaxStarted
        /\ linesIn' = Append(linesIn, raw)
        /\ handlers' = handlers \o [k \in 1..n |-> Handler(line, order[k], h)]
        /\ started' = started \o Repeat(Effects(h.effects, token), n)
        /\ UNCHANGED <<plugin, protocol, token, nodeMode, alive, stdout, stderr, conns>>

Written(i) == [handler |-> i, text |-> handlers[i].h.out.val.ts]

\* (mutant) the callbacks that are ready resume in any order
MutLineWrite(i) ==
    /\ alive
    /\ i \in 1..Len(handlers)
    /\ handlers[i].stage = "ready"
    /\ stdout' = Append(stdout, [handler |-> i, text |-> handlers[i].h.out.val.ts])
    /\ handlers' = [handlers EXCEPT ![i].stage = "written"]
    /\ UNCHANGED <<plugin, protocol, token, nodeMode, alive, started, linesIn, stderr, conns>>

\* console.log(responseJson) of a callback whose handleRequest returned without
\* suspending: such callbacks resume in the order they were started
LineWrite(i) ==
    /\ alive
    /\ i \in 1..Len(handlers)
    /\ handlers[i].stage = "ready"
    /\ \A j \in 1..(i - 1) : handlers[j].stage # "ready"
    /\ stdout' = Append(stdout, Written(i))
    /\ handlers' = [handlers EXCEPT ![i].stage = "written"]
    /\ UNCHANGED <<plugin, protocol, token, nodeMode, alive, started, linesIn, stderr, conns>>

\* (mutant) a callback resumes only when no earlier callback is still waiting
MutLineSettle(i) ==
    /\ alive
    /\ i \in 1..Len(handlers)
    /\ handlers[i].stage = "awaiting"
    /\ handlers[i].h.out.kind # "hang"
    /\ \A j \in 1..(i - 1) : handlers[j].stage # "awaiting"
    /\ IF handlers[i].h.out.kind = "ok"
       THEN /\ stdout' = Append(stdout, [handler |-> i, text |-> handlers[i].h.out.val.ts])
            /\ handlers' = [handlers EXCEPT ![i].stage = "written"]
       ELSE /\ handlers' = [handlers EXCEPT ![i].stage = "rejected"]
            /\ UNCHANGED stdout
    /\ UNCHANGED <<plugin, protocol, token, nodeMode, alive, started, linesIn, stderr, conns>>

\* the awaited call settles: handleRequest completes and the callback logs the
\* response, or handleRequest rejects and the callback's promise with it
LineSettle(i) ==
    /\ alive
    /\ i \in 1..Len(handlers)
    /\ handlers[i].stage = "awaiting"
    /\ handlers[i].h.out.kind # "hang"
    /\ IF handlers[i].h.out.kind = "ok"
       THEN /\ stdout' = Append(stdout, Written(i))
            /\ handlers' = [handlers EXCEPT ![i].stage = "written"]
       ELSE /\ handlers' = [handlers EXCEPT ![i].stage = "rejected"]
            /\ UNCHANGED stdout
    /\ UNCHANGED <<plugin, protocol, token, nodeMode, alive, started, linesIn, stderr, conns>>

\* nobody handles the rejected promise of a "line" callback: once the microtask
\* queue is empty a runtime in "throw" mode ends the process, one in "warn" mode
\* only prints a warning
UnhandledRejection ==
    /\ alive
    /\ nodeMode = "throw"
    /\ \E i \in 1..Len(handlers) : handlers[i].stage = "rejected"
    /\ \A i \in 1..Len(handlers) : handlers[i].stage # "ready"
    /\ alive' = FALSE
    /\ UNCHANGED <<plugin, protocol, token, nodeMode, started, linesIn, handlers, stdout,
                   stderr, conns>>

\* server.listen(port) on a port in use: an unhandled error event ends the process
ListenError ==
    /\ alive
    /\ PortClash
    /\ alive' = FALSE
    /\ UNCHANGED <<plugin, protocol, token, nodeMode, started, linesIn, handlers, stdout,
                   stderr, conns>>

(***************************************************************************)
(* listenHttp: the request callback                                        *)
(***************************************************************************)
\* req.headers["authorization"]: absent, or the header's text given as the
\* fields authHeader.split(" ") yields (the empty text splits into one empty field)
NoAuth == [present |-> FALSE, fields |-> <<>>]
Auth(fields) == [present |-> TRUE, fields |-> fields]

ReqHead(remote, auth, method, ctype) ==
    [remote |-> remote, auth |-> auth, method |-> method, ctype |-> ctype]

\* (mutant) the token is all that follows "Bearer ", spaces included
MutReceivedTokenRest(auth) ==
    IF auth.present /\ auth.fields # <<"">> /\ auth.fields[1] = "Bearer"
    THEN IF Len(auth.fields) >= 3 THEN JStr(auth.fields[2] \o " " \o auth.fields[3])
         ELSE IF Len(auth.fields) = 2 THEN JStr(auth.fields[2]) ELSE Undef
    ELSE JNull

\* (mutant) the scheme is matched whatever its case
MutReceivedTokenScheme(auth) ==
    IF auth.present /\ auth.fields # <<"">> /\ auth.fields[1] \in {"Bearer", "bearer"}
    THEN IF Len(auth.fields) >= 2 THEN JStr(auth.fields[2]) ELSE Undef
    ELSE JNull

\* authHeader && authHeader.split(" ")[0] === "Bearer" ? authHeader.split(" ")[1] : null
ReceivedToken(auth) ==
    IF auth.present /\ auth.fields # <<"">> /\ auth.fields[1] = "Bearer"
    THEN IF Len(auth.fields) >= 2 THEN JStr(auth.fields[2]) ELSE Undef
    ELSE JNull

\* (mutant) the token is only required to be there, it is not compared
MutTokenRejected(received, tok) == Nullish(received) \/ received = JStr("")

\* !receivedToken || receivedToken !== token
TokenRejected(received, tok) ==
    \/ Nullish(received)
    \/ received = JStr("")
    \/ received # tok

\* (mutant) only the IPv4 loopback address is tested
MutIsLoopback(remote) == remote = "127.0.0.1"

\* req.socket.remoteAddress === "127.0.0.1" || req.socket.remoteAddress === "::1"
IsLoopback(remote) == remote = "127.0.0.1" \/ remote = "::1"

\* (mutant) the token is checked before the remote address
MutHttpCheck(head, tok) ==
    IF TokenRejected(ReceivedToken(head.auth), tok) THEN 401
    ELSE IF IsLoopback(head.remote) THEN 403
    ELSE IF head.method = "POST" /\ head.ctype = "application/json" THEN 0
    ELSE 405

\* the status the request callback answers at once, 0 when it goes on to read the body
HttpCheck(head, tok) ==
    IF IsLoopback(head.remote) THEN 403
    ELSE IF TokenRejected(ReceivedToken(head.auth), tok) THEN 401
    ELSE IF head.method = "POST" /\ head.ctype = "application/json" THEN 0
    ELSE 405

\* (mutant) the 405 response has a text
MutRejectBody(status) ==
    CASE status = 403 -> JStr("Access denied")
      [] status = 401 -> JStr("Invalid or missing token")
      [] OTHER -> JStr("Method Not Allowed")

\* res.end(...) of the rejections
RejectBody(status) ==
    CASE status = 403 -> JStr("Access denied")
      [] status = 401 -> JStr("Invalid or missing token")
      [] OTHER -> JStr("")

\* the body of the 500 response
FallbackBody ==
    JText(JsonStringify(JObj(<<Member("jsonrpc", JStr("2.0")),
                               Member("error", JObj(<<Member("code", JNum(InternalErrorCode)),
                                                      Member("message", JStr("Internal error"))>>)),
                               Member("id", JNull)>>)))

\* a request whose handleRequest has not been called
NotHandled == Handled(Hang, FALSE, FALSE, Undef, Undef, "", <<>>, <<>>)

\* one request: what the client sends (its head, the body text it has still to
\* send and has sent), and what the callback holds (body, the response)
Conn(server, head, text, stage, status, resType, resBody) ==
    [server |-> server, head |-> head, tosend |-> text, sent |-> <<>>, nchunks |-> 0,
     stage |-> stage, body |-> <<>>, dispatched |-> 0, h |-> NotHandled,
     status |-> status, resType |-> resType, resBody |-> resBody]

\* http.createServer(async (req, res) => ...): the checks, then the listeners
HttpRequest(s, head, text, max) ==
    LET status == HttpCheck(head, started[s].token)
    IN  /\ alive
        /\ Listening(s)
        /\ Len(conns) < max
        /\ conns' = Append(conns,
                IF status = 0 THEN Conn(s, head, text, "body", 0, "", Undef)
                ELSE Conn(s, head, text, "done", status, "", RejectBody(status)))
        /\ UNCHANGED <<plugin, protocol, token, nodeMode, alive, started, linesIn, handlers,
                       stdout, stderr>>

\* (mutant) the body is the last chunk
MutAccumulate(body, chunk) == chunk

\* body += chunk.toString()
Accumulate(body, chunk) == body \o chunk

\* (mutant) one body for the whole server: a chunk is appended for every request
\* whose body is arriving
MutHttpData(c, n) ==
    /\ alive
    /\ c \in 1..Len(conns)
    /\ conns[c].stage = "body"
    /\ conns[c].nchunks < MaxChunks
    /\ n \in 1..Len(conns[c].tosend)
    /\ LET chunk == SubSeq(conns[c].tosend, 1, n)
       IN  conns' = [d \in 1..Len(conns) |->
                IF d = c
                THEN [conns[d] EXCEPT !.tosend = SubSeq(@, n + 1, Len(@)),
                                      !.sent = @ \o chunk,
                                      !.nchunks = @ + 1,
                                      !.body = @ \o chunk]
                ELSE IF conns[d].stage = "body" THEN [conns[d] EXCEPT !.body = @ \o chunk]
                ELSE conns[d]]
    /\ UNCHANGED <<plugin, protocol, token, nodeMode, alive, started, linesIn, handlers,
                   stdout, stderr>>

\* req.on("data", (chunk) => { body += chunk.toString(); }): the next n tokens of
\* the body arrive
HttpData(c, n) ==
    /\ alive
    /\ c \in 1..Len(conns)
    /\ conns[c].stage = "body"
    /\ conns[c].nchunks < MaxChunks
    /\ n \in 1..Len(conns[c].tosend)
    /\ LET chunk == SubSeq(conns[c].tosend, 1, n)
       IN  conns' = [conns EXCEPT ![c].tosend = SubSeq(@, n + 1, Len(@)),
                                  ![c].sent = @ \o chunk,
                                  ![c].nchunks = @ + 1,
                                  ![c].body = Accumulate(@, chunk)]
    /\ UNCHANGED <<plugin, protocol, token, nodeMode, alive, started, linesIn, handlers,
                   stdout, stderr>>

\* the try block after handleRequest returned responseJson
Respond200(conn, h) ==
    [conn EXCEPT !.stage = "done", !.h = h, !.status = 200,
                 !.resType = "application/json", !.resBody = h.out.val]

\* (mutant) the catch block answers as if handleRequest had returned nothing
MutRespond500(conn, h) ==
    [conn EXCEPT !.stage = "done", !.h = h, !.status = 200,
                 !.resType = "application/json", !.resBody = JStr("")]

\* the catch block
Respond500(conn, h) ==
    [conn EXCEPT !.stage = "done", !.h = h, !.status = 500, !.resBody = FallbackBody]

\* (mutant) handleRequest is called on what has arrived, the stream ended or not
MutHttpEnd(c, now) ==
    /\ alive
    /\ c \in 1..Len(conns)
    /\ conns[c].stage = "body"
    /\ LET h == handleRequest(plugin, protocol, conns[c].body, now)
           conn == [conns[c] EXCEPT !.dispatched = @ + 1]
       IN  /\ Len(started) + Len(h.effects) <= MaxStarted
           /\ conns' = [conns EXCEPT ![c] =
                    IF ~h.sync THEN [conn EXCEPT !.stage = "awaiting", !.h = h]
                    ELSE IF h.out.kind = "ok" THEN [conn EXCEPT !.stage = "done", !.h = h,
                                                        !.status = 200,
                                                        !.resType = "application/json",
                                                        !.resBody = h.out.val]
                    ELSE [conn EXCEPT !.stage = "done", !.h = h, !.status = 500]]
           /\ started' = started \o Effects(h.effects, token)
    /\ UNCHANGED <<plugin, protocol, token, nodeMode, alive, linesIn, handlers, stdout, stderr>>

\* req.on("end", async () => ...): handleRequest(body) up to its first suspension,
\* and the response at once when it did not suspend
HttpEnd(c, now) ==
    /\ alive
    /\ c \in 1..Len(conns)
    /\ conns[c].stage = "body"
    /\ conns[c].tosend = <<>>
    /\ LET h == handleRequest(plugin, protocol, conns[c].body, now)
           conn == [conns[c] EXCEPT !.dispatched = @ + 1]
       IN  /\ Len(started) + Len(h.effects) <= MaxStarted
           /\ conns' = [conns EXCEPT ![c] =
                    IF ~h.sync THEN [conn EXCEPT !.stage = "awaiting", !.h = h]
                    ELSE IF h.out.kind = "ok" THEN Respond200(conn, h)
                    ELSE Respond500(conn, h)]
           /\ started' = started \o Effects(h.effects, token)
    /\ UNCHANGED <<plugin, protocol, token, nodeMode, alive, linesIn, handlers, stdout, stderr>>

\* the awaited call settles and the "end" callback answers
HttpSettle(c) ==
    /\ alive
    /\ c \in 1..Len(conns)
    /\ conns[c].stage = "awaiting"
    /\ conns[c].h.out.kind # "hang"
    /\ conns' = [conns EXCEPT ![c] =
            IF @.h.out.kind = "ok" THEN Respond200(@, @.h) ELSE Respond500(@, @.h)]
    /\ UNCHANGED <<plugin, protocol, token, nodeMode, alive, started, linesIn, handlers,
                   stdout, stderr>>

(***************************************************************************)
(* HTTP input alphabets                                                    *)
(***************************************************************************)
Remotes == {"127.0.0.1", "::1", "::ffff:127.0.0.1", "10.0.0.5"}

AuthHeaders ==
    { NoAuth, Auth(<<"">>), Auth(<<"Bearer">>), Auth(<<"Bearer", "s3cret">>),
      Auth(<<"Bearer", "wrong">>), Auth(<<"bearer", "s3cret">>), Auth(<<"Basic", "s3cret">>),
      Auth(<<"Bearer", "", "s3cret">>), Auth(<<"Bearer", "s3cret", "extra">>),
      Auth(<<"Bearer", "a", "b">>), Auth(<<"s3cret">>),
      Auth(<<"Bearer", "">>), Auth(<<"Bearer", "undefined">>) }

HttpMethods == {"POST", "GET"}

\* req.headers["content-type"] ("" when the header is absent)
ContentTypes == {"application/json", "application/json; charset=utf-8", "text/plain", ""}

Heads ==
    { ReqHead(r, a, m, ct) : r \in Remotes, a \in AuthHeaders, m \in HttpMethods, ct \in ContentTypes }

\* the heads of a conversation of several requests
FewHeads ==
    { ReqHead("10.0.0.5", Auth(<<"Bearer", "s3cret">>), "POST", "application/json"),
      ReqHead("10.0.0.5", Auth(<<"Bearer", "wrong">>), "POST", "application/json"),
      ReqHead("127.0.0.1", Auth(<<"Bearer", "s3cret">>), "POST", "application/json"),
      ReqHead("10.0.0.5", Auth(<<"Bearer", "s3cret">>), "GET", "application/json") }

\* the bodies of the requests, and the sizes of the chunks they arrive in
ChunkLen == 5
ChunkSizes(c) == {ChunkLen, Len(conns[c].tosend)}

Bodies ==
    { Req(JNum(1), JStr("health"), JObj(<<>>)),
      Req(JNum(2), JStr("kernel_get"), FullParams),
      Req(JNum(3), JStr("nope"), JObj(<<>>)),
      Req(JStr("3"), JStr("nope"), JObj(<<>>)),
      Req(JNum(4), JStr("run"), JObj(<<>>)),
      <<Tok("{"), TStr("id"), Tok(":"), TNum(1), Tok(",")>>,
      <<Tok("null")>>,
      <<>> }

FewBodies ==
    { Req(JNum(1), JStr("health"), JObj(<<>>)),
      Req(JNum(2), JStr("kernel_get"), FullParams),
      Req(JNum(4), JStr("run"), JObj(<<>>)),
      <<Tok("null")>> }

FewPlugins == {BasePlugin, OddPlugin("hang")}

(***************************************************************************)
(* Specifications                                                          *)
(***************************************************************************)
\* the whole program in a conversation of several lines or HTTP requests
Next ==
    \/ Run
    \/ \E raw \in LineInputs, now \in Clock : ReadLine(raw, now, MaxLines)
    \/ \E i \in 1..Len(handlers) : LineWrite(i)
    \/ \E i \in 1..Len(handlers) : LineSettle(i)
    \/ UnhandledRejection
    \/ ListenError
    \/ \E s \in 1..Len(started), head \in FewHeads, text \in FewBodies :
            HttpRequest(s, head, text, MaxConns)
    \/ \E c \in 1..Len(conns) : \E n \in ChunkSizes(c) : HttpData(c, n)
    \/ \E c \in 1..Len(conns), now \in Clock : HttpEnd(c, now)
    \/ \E c \in 1..Len(conns) : HttpSettle(c)

\* (STENCILA_TOKEN is given with the http transport only, and the runtime's
\* handling of rejections is told apart on the line transport only)
InitFew ==
    /\ Init
    /\ plugin \in FewPlugins
    /\ IF protocol = "http" THEN token \in {Secret, Undef} /\ nodeMode = "throw"
       ELSE token = Undef

Spec == InitFew /\ [][Next]_vars

\* its fairness: the event loop runs every callback that is ready
FairSpec ==
    /\ Spec
    /\ WF_vars(Run)
    /\ WF_vars(\E i \in 1..Len(handlers) : LineWrite(i))
    /\ WF_vars(\E i \in 1..Len(handlers) : LineSettle(i))
    /\ WF_vars(UnhandledRejection)
    /\ WF_vars(\E c \in 1..Len(conns) : HttpSettle(c))

\* the dispatcher on every text, one line in the life of a process on the line transport
InitDispatch == Init /\ protocol = "stdio" /\ token = Undef

NextDispatch ==
    \/ Run
    \/ \E raw \in RawInputs, now \in Clock : linesIn = <<>> /\ ReadLine(raw, now, MaxLines)
    \/ \E i \in 1..Len(handlers) : LineWrite(i)
    \/ \E i \in 1..Len(handlers) : LineSettle(i)
    \/ UnhandledRejection

SpecDispatch == InitDispatch /\ [][NextDispatch]_vars

\* the request callback on every request head, one request in the life of a server
InitHttp ==
    Init /\ protocol = "http" /\ nodeMode = "throw" /\ plugin \in {BasePlugin, OddPlugin("throwSymbol")}

NextHttp ==
    \/ Run
    \/ \E s \in 1..Len(started), head \in Heads, text \in Bodies :
            conns = <<>> /\ HttpRequest(s, head, text, MaxConns)
    \/ \E c \in 1..Len(conns) : \E n \in ChunkSizes(c) : HttpData(c, n)
    \/ ListenError
    \/ \E c \in 1..Len(conns), now \in Clock : HttpEnd(c, now)
    \/ \E c \in 1..Len(conns) : HttpSettle(c)

SpecHttp == InitHttp /\ [][NextHttp]_vars

\* a conversation of several lines on the line transport
InitLines ==
    /\ Init
    /\ protocol = "stdio"
    /\ token = Undef
    /\ plugin \in {BasePlugin, ExamplePlugin, OddPlugin("hang"), OddPlugin("throwError")}

NextLines ==
    \/ Run
    \/ \E raw \in LineInputs, now \in Clock : ReadLine(raw, now, MaxLines + 1)
    \/ \E i \in 1..Len(handlers) : LineWrite(i)
    \/ \E i \in 1..Len(handlers) : LineSettle(i)
    \/ UnhandledRejection

SpecLines == InitLines /\ [][NextLines]_vars

\* a conversation of kernel requests with the base class on the line transport
KernelLines ==
    { Req(JNum(1), JStr("kernel_start"), JObj(<<Member("kernel", JStr("python"))>>)),
      Req(JNum(1), JStr("kernelStart"), JObj(<<Member("kernel", JStr("python"))>>)),
      Req(JNum(1), JStr("kernel_start"), FullParams),
      Req(JNum(2), JStr("kernel_stop"), JObj(<<Member("instance", JStr("python"))>>)),
      Req(JNum(3), JStr("kernel_execute"),
          JObj(<<Member("code", JStr("1+1")), Member("instance", JStr("python"))>>)),
      Req(JNum(3), JStr("kernelExecute"),
          JObj(<<Member("code", JStr("1+1")), Member("instance", JStr("python"))>>)),
      Req(JNum(4), JStr("kernel_get"), FullParams),
      Req(JNum(5), JStr("kernel_set"), FullParams),
      Req(JNum(6), JStr("kernel_stop"), JNull),
      <<Tok("null")>> }

InitKernel == Init /\ protocol = "stdio" /\ token = Undef /\ plugin = BasePlugin

NextKernel ==
    \/ Run
    \/ \E raw \in KernelLines, now \in Clock : ReadLine(raw, now, MaxLines)
    \/ \E i \in 1..Len(handlers) : LineWrite(i)
    \/ \E i \in 1..Len(handlers) : LineSettle(i)
    \/ UnhandledRejection

SpecKernel == InitKernel /\ [][NextKernel]_vars

(***************************************************************************)
(* Reading requests and responses back                                     *)
(***************************************************************************)
\* the response envelope a text decodes to
Envelope(text) == JsonParse(text).val

HasField(env, k) == env.t = "obj" /\ HasKey(env.o, k)

ErrorCode(env) == Get(Get(env, "error"), "code")
ErrorMessage(env) == Get(Get(env, "error"), "message")

IsFailure(env, code) ==
    /\ HasField(env, "error")
    /\ ~HasField(env, "result")
    /\ ErrorCode(env) = JNum(code)

\* the request a line decodes to (undefined when the line is no JSON text)
LineRequest(i) == JsonParse(linesIn[handlers[i].line]).val

\* the line of handler i is a JSON object whose method is the string m
Names(i, m) == LineRequest(i).t = "obj" /\ Get(LineRequest(i), "method") = JStr(m)

\* the lines console.log wrote for handler i
Answers(i) == {k \in 1..Len(stdout) : stdout[k].handler = i}

\* handleRequest returned a response for handler i, and if the callback has gone
\* on it wrote that response, once
Answered(i) ==
    /\ handlers[i].h.out.kind = "ok"
    /\ handlers[i].stage \in {"ready", "awaiting", "written"}
    /\ handlers[i].stage = "written" =>
            /\ Cardinality(Answers(i)) = 1
            /\ \A k \in Answers(i) : stdout[k].text = handlers[i].h.out.val.ts

\* the response of handler i, decoded
Response(i) == Envelope(handlers[i].h.out.val.ts)

\* the callback of handler i has ended: it wrote its line, or its promise is rejected
Finished(i) == handlers[i].stage \in {"written", "rejected"}

\* the line handler i wrote, decoded
Output(i) == Envelope(stdout[CHOOSE k \in Answers(i) : TRUE].text)

\* pieces of text around a name in a message
Affixes == {"", "Method '", "' not found", "Internal error: ", "Error: ", "TypeError: "}

Contains(msg, part) ==
    msg.t = "str" /\ \E pre \in Affixes, mid \in Affixes, post \in Affixes :
        msg.s = pre \o mid \o part \o post

(***************************************************************************)
(* C1. handleRequest never raises: for every text and every behaviour of   *)
(* the capability it calls, it completes by returning a response (its      *)
(* promise is never rejected).                                             *)
(***************************************************************************)
C1_HandleNeverRaises ==
    \A i \in 1..Len(handlers) : handlers[i].stage # "rejected"

(***************************************************************************)
(* C2. On the line transport every line whose handling has ended was       *)
(* answered with exactly one response line, and the process is still       *)
(* running whatever lines it was given.                                    *)
(***************************************************************************)
LineHandlers(l) == {i \in 1..Len(handlers) : handlers[i].line = l}

C2_EveryLineAnswered ==
    protocol = "stdio" =>
        /\ alive
        /\ \A l \in 1..Len(linesIn) :
              (\A i \in LineHandlers(l) : handlers[i].stage \in {"written", "rejected"})
              => Cardinality({k \in 1..Len(stdout) : stdout[k].handler \in LineHandlers(l)}) = 1

(***************************************************************************)
(* C3. Every response the dispatcher produces carries exactly one of the   *)
(* fields result and error.                                                *)
(***************************************************************************)
C3_ExactlyOneOfResultError ==
    \A k \in 1..Len(stdout) :
        HasField(Envelope(stdout[k].text), "result") <=> ~HasField(Envelope(stdout[k].text), "error")

(***************************************************************************)
(* C4. Over HTTP a request with no Authorization header, or one that does  *)
(* not present the configured secret as Bearer token, is answered 401 and  *)
(* never reaches the dispatcher, whatever its remote address, method,      *)
(* content type and body.                                                  *)
(***************************************************************************)
\* the header has the form "Bearer <token>" with the configured secret for <token>
Presents(auth, tok) ==
    /\ auth.present
    /\ Len(auth.fields) >= 2
    /\ auth.fields[1] = "Bearer"
    /\ JStr(auth.fields[2]) = tok

C4_Original_Always401 ==
    \A c \in 1..Len(conns) :
        ~Presents(conns[c].head.auth, started[conns[c].server].token) =>
            /\ conns[c].status = 401
            /\ conns[c].dispatched = 0

(***************************************************************************)
(* C4 (amended). Such a request never reaches the dispatcher and its body  *)
(* is never read; it is answered 401 with "Invalid or missing token",      *)
(* unless its remote address is 127.0.0.1 or ::1, which is answered 403.   *)
(***************************************************************************)
C4_Unauthenticated401Or403 ==
    \A c \in 1..Len(conns) :
        ~Presents(conns[c].head.auth, started[conns[c].server].token) =>
            /\ conns[c].dispatched = 0
            /\ conns[c].body = <<>>
            /\ conns[c].stage = "done"
            /\ conns[c].status = IF conns[c].head.remote \in {"127.0.0.1", "::1"} THEN 403 ELSE 401
            /\ conns[c].status = 401 => conns[c].resBody = JStr("Invalid or missing token")

C4_Witness ==
    \E c \in 1..Len(conns) :
        /\ started[conns[c].server].token = Secret
        /\ conns[c].head.auth = Auth(<<"Bearer", "wrong">>)
        /\ conns[c].head.remote = "10.0.0.5"
        /\ conns[c].head.method = "POST"
        /\ conns[c].head.ctype = "application/json"
        /\ conns[c].status = 401

(***************************************************************************)
(* C5. A request whose method is a name that is no function of the         *)
(* registry (a capability name in another letter case, a prefix of one,    *)
(* any other name) is answered with METHOD_NOT_FOUND (-32601), a message   *)
(* that contains the name and the id of the request, and calls nothing.    *)
(***************************************************************************)
C5_UnknownMethodNotFound ==
    \A i \in 1..Len(handlers) : \A m \in UnknownNames :
        Names(i, m) =>
            /\ handlers[i].h.called = ""
            /\ handlers[i].h.calls = <<>>
            /\ handlers[i].h.effects = <<>>
            /\ Answered(i)
            /\ IsFailure(Response(i), -32601)
            /\ Contains(ErrorMessage(Response(i)), m)
            /\ Get(Response(i), "id") = Get(LineRequest(i), "id")

C5_Witness ==
    \E i \in 1..Len(handlers) :
        /\ Names(i, "Health")
        /\ Get(LineRequest(i), "id") = JNum(1)
        /\ handlers[i].stage = "written"
        /\ ErrorCode(Envelope(stdout[1].text)) = JNum(-32601)

(***************************************************************************)
(* C6. Only the capabilities can be invoked by a request: a request whose  *)
(* method names another operation of the object (handleRequest,            *)
(* listenStdio, listenHttp, run, or an inherited member such as            *)
(* constructor or toString) calls nothing and is answered with             *)
(* METHOD_NOT_FOUND.                                                       *)
(***************************************************************************)
C6_OnlyCapabilitiesInvokable ==
    \A i \in 1..Len(handlers) : \A m \in CoreMethods \cup InheritedMethods :
        Names(i, m) =>
            /\ handlers[i].h.called = ""
            /\ Finished(i) => handlers[i].stage = "written" /\ IsFailure(Output(i), -32601)

(***************************************************************************)
(* C7. A text that is not JSON (the empty line included) is answered with  *)
(* PARSE_ERROR (-32700) and id null, and nothing is called.                *)
(***************************************************************************)
C7_MalformedParseError ==
    \A i \in 1..Len(handlers) :
        linesIn[handlers[i].line] \in MalformedTexts =>
            /\ handlers[i].h.called = ""
            /\ handlers[i].h.calls = <<>>
            /\ handlers[i].h.effects = <<>>
            /\ Answered(i)
            /\ IsFailure(Response(i), -32700)
            /\ HasField(Response(i), "id")
            /\ Get(Response(i), "id") = JNull

C7_Witness ==
    \E i \in 1..Len(handlers) :
        /\ linesIn[handlers[i].line] = <<>>
        /\ handlers[i].stage = "written"
        /\ ErrorCode(Envelope(stdout[1].text)) = JNum(-32700)

(***************************************************************************)
(* C8. A text that is JSON but no request envelope (null, a number, a      *)
(* string, an array, an object without a string method) is answered with   *)
(* PARSE_ERROR and id null.                                                *)
(***************************************************************************)
C8_NonEnvelopeParseError ==
    \A i \in 1..Len(handlers) :
        (linesIn[handlers[i].line] \in NonObjectTexts \cup NonEnvelopeTexts /\ Finished(i)) =>
            /\ handlers[i].stage = "written"
            /\ IsFailure(Output(i), -32700)
            /\ Get(Output(i), "id") = JNull

(***************************************************************************)
(* C9. When the capability a request calls raises, the response is a       *)
(* failure envelope with INTERNAL_ERROR (-32603), the id of the request    *)
(* and a message that includes the error's text: the failure is not        *)
(* reported as a success and does not escape handleRequest.                *)
(***************************************************************************)
\* the capability called for handler i threw, or rejected, with err
Raised(i, err) ==
    /\ handlers[i].h.calls # <<>>
    /\ LET call == handlers[i].h.calls[1]
       IN  CallCap(plugin, call.cap, call.args, 1700000000) = Err(err)

Raisable == {ErrObj("Error", "boom"), ErrObj("Error", KernelInfoMessage),
             ErrObj("Error", PerformTaskMessage), ReadTypeError, Sym}

C9_CapabilityFailureContained ==
    \A i \in 1..Len(handlers) : \A err \in Raisable :
        (handlers[i].h.called \in Caps \cup WireNames /\ Raised(i, err) /\ Finished(i)) =>
            /\ handlers[i].stage = "written"
            /\ IsFailure(Output(i), -32603)
            /\ Get(Output(i), "id") = Get(LineRequest(i), "id")
            /\ Contains(ErrorMessage(Output(i)), JsToString(err))

(***************************************************************************)
(* C10. On a registry with no override, a request naming kernelInfo or     *)
(* assistantPerformTask, by its capability name or its wire name, is       *)
(* answered with a failure envelope with INTERNAL_ERROR: handleRequest     *)
(* does not raise and does not report success.                             *)
(***************************************************************************)
MustOverride == {"kernelInfo", "kernel_info", "assistantPerformTask", "assistant_perform_task"}

C10_MustOverrideInternalError ==
    \A i \in 1..Len(handlers) : \A m \in MustOverride :
        (plugin = BasePlugin /\ Names(i, m)) =>
            /\ handlers[i].h.called = m
            /\ Answered(i)
            /\ IsFailure(Response(i), -32603)
            /\ Get(Response(i), "id") = Get(LineRequest(i), "id")

C10_Witness ==
    \E i \in 1..Len(handlers) :
        /\ plugin = BasePlugin
        /\ Names(i, "assistant_perform_task")
        /\ Get(LineRequest(i), "params") = FullParams
        /\ handlers[i].h.calls = <<Call("assistantPerformTask", <<Get(FullParams, "task"),
                                        Get(FullParams, "options"), Get(FullParams, "assistant")>>)>>
        /\ handlers[i].stage = "written"
        /\ ErrorCode(Envelope(stdout[1].text)) = JNum(-32603)
        /\ ErrorMessage(Envelope(stdout[1].text)) = JStr("Internal error: Error: " \o PerformTaskMessage)

(***************************************************************************)
(* C11. A request with a params object that names kernelStop, kernelSet    *)
(* or kernelRemove (by capability name or wire name) on a class that does  *)
(* not override it is answered with a success envelope whose result is     *)
(* present and null; and whenever the capability a request calls completes *)
(* with null or undefined, the response has the field result, with value   *)
(* null, and no field error.                                               *)
(***************************************************************************)
NoOps == {"kernelStop", "kernelSet", "kernelRemove"}

\* the capability a method name stands for
CapOf(m) == IF m \in WireNames THEN WireCap[m] ELSE m

\* the capability handler i called completed with the value v
Completed(i, v) ==
    /\ handlers[i].h.called \in Caps \cup WireNames
    /\ handlers[i].h.calls # <<>>
    /\ \E now \in Clock :
          LET call == handlers[i].h.calls[1]
          IN  CallCap(plugin, call.cap, call.args, now) = Ok(v)

IsSuccess(env, v) ==
    /\ HasField(env, "result")
    /\ ~HasField(env, "error")
    /\ Get(env, "result") = v

C11_EmptyResultIsNull ==
    \A i \in 1..Len(handlers) :
        /\ \A m \in NoOps \cup {"kernel_stop", "kernel_set", "kernel_remove"} :
              (/\ Names(i, m)
               /\ plugin[CapOf(m)] = "default"
               /\ Get(LineRequest(i), "params").t = "obj")
              => /\ Answered(i)
                 /\ IsSuccess(Response(i), JNull)
                 /\ Get(Response(i), "id") = Get(LineRequest(i), "id")
        /\ \A v \in {JNull, Undef} :
              Completed(i, v) => Answered(i) /\ IsSuccess(Response(i), JNull)

C11_Witness ==
    \E i \in 1..Len(handlers) :
        /\ plugin = BasePlugin
        /\ Names(i, "kernel_stop")
        /\ Get(LineRequest(i), "params") = FullParams
        /\ handlers[i].h.calls = <<Call("kernelStop", <<JStr("i1"), Undef, Undef>>)>>
        /\ handlers[i].stage = "written"
        /\ stdout[1].text = successResponse(JNum(1), Undef)
        /\ Get(Envelope(stdout[1].text), "result") = JNull

(***************************************************************************)
(* C12. For every request that decodes to an envelope (an object with a    *)
(* string method and a numeric or string id), the response carries the id  *)
(* of the request, and a response with id null answers a text that could   *)
(* not be decoded to an envelope.  Stated over the HTTP transport, whose   *)
(* responses are the dispatcher's output or the body of the 500 response.  *)
(***************************************************************************)
\* the value the body of connection c decodes to
HttpRequestValue(c) == JsonParse(conns[c].body).val

\* v is a request envelope: an object with a string method
IsEnvelope(v) == v.t = "obj" /\ Get(v, "method").t = "str"

\* connection c was answered with a JSON-RPC response
HttpAnswered(c) == conns[c].stage = "done" /\ conns[c].status \in {200, 500}

HttpResponse(c) == Envelope(conns[c].resBody.ts)

C12_ResponseIdIsRequestId ==
    \A c \in 1..Len(conns) :
        HttpAnswered(c) =>
            /\ (IsEnvelope(HttpRequestValue(c)) /\ Get(HttpRequestValue(c), "id").t \in {"num", "str"})
               => Get(HttpResponse(c), "id") = Get(HttpRequestValue(c), "id")
            /\ Get(HttpResponse(c), "id") = JNull
               => ~(JsonParse(conns[c].body).ok /\ IsEnvelope(HttpRequestValue(c)))

(***************************************************************************)
(* C13. The request callback checks the origin, then the token, then the   *)
(* method and content type, and the first check that fails answers: a      *)
(* request from a loopback address gets 403 whatever its token and method, *)
(* one that passes the origin check with a bad token gets 401 whatever its *)
(* method, one that passes both with a bad method or content type gets     *)
(* 405.  A request answered 403, 401 or 405 is answered at once with a     *)
(* plain body: its body is never read, it never reaches the dispatcher,    *)
(* its response is no JSON-RPC envelope, and a status once written is      *)
(* never written again.                                                    *)
(***************************************************************************)
FromLoopback(c) == conns[c].head.remote \in {"127.0.0.1", "::1"}

\* the request presents the server's (non-empty) secret as Bearer token
Authenticated(c) ==
    /\ Presents(conns[c].head.auth, started[conns[c].server].token)
    /\ conns[c].head.auth.fields[2] # ""

PostsJson(c) == conns[c].head.method = "POST" /\ conns[c].head.ctype = "application/json"

Rejections == {403, 401, 405}

C13_ChecksInOrder ==
    \A c \in 1..Len(conns) :
        /\ FromLoopback(c) => conns[c].status = 403
        /\ (~FromLoopback(c) /\ ~Authenticated(c)) => conns[c].status = 401
        /\ (~FromLoopback(c) /\ Authenticated(c) /\ ~PostsJson(c)) => conns[c].status = 405
        /\ (~FromLoopback(c) /\ Authenticated(c) /\ PostsJson(c)) => conns[c].status \notin Rejections
        /\ conns[c].status \in Rejections =>
              /\ conns[c].stage = "done"
              /\ conns[c].body = <<>>
              /\ conns[c].sent = <<>>
              /\ conns[c].dispatched = 0
              /\ conns[c].h = NotHandled
              /\ conns[c].resType = ""
              /\ conns[c].resBody \in {JStr("Access denied"), JStr("Invalid or missing token"), JStr("")}

\* a response once written stays as it is
C13_OneStatus ==
    [][\A c \in 1..Len(conns) :
          conns[c].status # 0 =>
              /\ conns'[c].status = conns[c].status
              /\ conns'[c].resBody = conns[c].resBody]_vars

C13_ShortCircuit == []C13_ChecksInOrder /\ C13_OneStatus

\* a request that fails all three checks is answered by the first
C13_Witness ==
    \E c \in 1..Len(conns) :
        /\ conns[c].head = ReqHead("::1", Auth(<<"Bearer", "wrong">>), "GET", "text/plain")
        /\ conns[c].tosend # <<>>
        /\ conns[c].status = 403
        /\ conns[c].resBody = JStr("Access denied")

C15_Original_Always405 ==
    \A c \in 1..Len(conns) :
        ~PostsJson(c) =>
            /\ conns[c].status = 405
            /\ conns[c].resBody = JStr("")
            /\ conns[c].dispatched = 0

(***************************************************************************)
(* C15 (amended). Such a request never reaches the dispatcher and its      *)
(* body is never read; it is answered 405 with an empty body when it       *)
(* passed the origin and token checks, and otherwise 403 or 401 by the     *)
(* check that failed first.  The Content-Type is compared exactly: one     *)
(* with a charset parameter is answered 405.                               *)
(***************************************************************************)
C15_NotPostJson405AfterChecks ==
    \A c \in 1..Len(conns) :
        ~PostsJson(c) =>
            /\ conns[c].dispatched = 0
            /\ conns[c].h = NotHandled
            /\ conns[c].body = <<>>
            /\ conns[c].stage = "done"
            /\ conns[c].status = IF FromLoopback(c) THEN 403
                                 ELSE IF ~Authenticated(c) THEN 401 ELSE 405
            /\ conns[c].status = 405 => conns[c].resBody = JStr("") /\ conns[c].resType = ""

C15_Witness ==
    \E c \in 1..Len(conns) :
        /\ started[conns[c].server].token = Secret
        /\ conns[c].head = ReqHead("10.0.0.5", Auth(<<"Bearer", "s3cret">>), "POST",
                                   "application/json; charset=utf-8")
        /\ conns[c].tosend # <<>>
        /\ conns[c].status = 405
        /\ conns[c].resBody = JStr("")

(***************************************************************************)
(* C16. A request that passes the origin, token and method/content-type    *)
(* checks and whose handleRequest returned is answered 200 with            *)
(* Content-Type application/json and, as body, exactly what handleRequest  *)
(* returns for the text the client sent, success or failure envelope; a    *)
(* POST with body {"id":"3","method":"nope","params":{}} is answered 200   *)
(* with the METHOD_NOT_FOUND envelope for id "3".                          *)
(***************************************************************************)
PassesChecks(c) == ~FromLoopback(c) /\ Authenticated(c) /\ PostsJson(c)

\* handleRequest was called for connection c and has returned a response
DispatchReturned(c) ==
    /\ conns[c].dispatched > 0
    /\ conns[c].stage = "done"
    /\ conns[c].h.out.kind = "ok"

NopeRequest == Req(JStr("3"), JStr("nope"), JObj(<<>>))

C16_DispatchedAnswered200 ==
    \A c \in 1..Len(conns) :
        /\ (PassesChecks(c) /\ DispatchReturned(c)) =>
              /\ conns[c].dispatched = 1
              /\ conns[c].status = 200
              /\ conns[c].resType = "application/json"
              /\ \E now \in Clock :
                    conns[c].resBody = handleRequest(plugin, protocol, conns[c].sent, now).out.val
        /\ (PassesChecks(c) /\ conns[c].stage = "done" /\ conns[c].sent = NopeRequest) =>
              /\ conns[c].status = 200
              /\ IsFailure(HttpResponse(c), -32601)
              /\ Get(HttpResponse(c), "id") = JStr("3")
              /\ ErrorMessage(HttpResponse(c)) = JStr("Method 'nope' not found")

C16_Witness ==
    \E c \in 1..Len(conns) :
        /\ PassesChecks(c)
        /\ conns[c].sent = NopeRequest
        /\ conns[c].nchunks = 2
        /\ conns[c].status = 200
        /\ conns[c].resType = "application/json"
        /\ conns[c].resBody = JText(errorResponse(JStr("3"), -32601, "Method 'nope' not found"))

(***************************************************************************)
(* C17. The line transport writes its responses in the order the lines     *)
(* were received: the response to an earlier line is never written after   *)
(* the response to a later line.                                           *)
(***************************************************************************)
\* the line the k-th response answers
LineOf(k) == handlers[stdout[k].handler].line

C17_Original_ResponsesInLineOrder ==
    \A k, l \in 1..Len(stdout) : k < l => LineOf(k) <= LineOf(l)

(***************************************************************************)
(* C17 (amended). The line transport writes each response when the         *)
(* handling of its line completes: responses to lines whose handling       *)
(* completes without waiting for a capability (a malformed line, an        *)
(* unknown method) are written in the order received, and a line that      *)
(* waits for a capability never holds back the response to a later line.   *)
(***************************************************************************)
\* handleRequest returned for handler i without suspending
Immediate(i) == handlers[i].h.sync /\ handlers[i].h.out.kind = "ok"

C17_ResponsesInCompletionOrder ==
    /\ \A k, l \in 1..Len(stdout) :
          (k < l /\ Immediate(stdout[k].handler) /\ Immediate(stdout[l].handler))
          => LineOf(k) <= LineOf(l)
    /\ \A i \in 1..Len(handlers) :
          (alive /\ Immediate(i) /\ handlers[i].stage = "ready")
          => \E j \in 1..Len(handlers) : ENABLED LineWrite(j)

\* the response to a malformed second line is written before the response to
\* the first line, which called a capability
C17_Witness ==
    /\ Len(linesIn) >= 2
    /\ linesIn[1] = Req(JNum(1), JStr("health"), JObj(<<>>))
    /\ linesIn[2] \in MalformedTexts
    /\ Len(stdout) = 2
    /\ LineOf(1) = 2
    /\ LineOf(2) = 1

(***************************************************************************)
(* C18. A capability call that has not completed holds back only the       *)
(* response to its own request: whatever other requests are pending, the   *)
(* running process still accepts a further line or HTTP request, a line    *)
(* callback whose call has settled can write its response, and an HTTP     *)
(* request whose body has ended is dispatched and one whose call has       *)
(* settled is answered.                                                    *)
(***************************************************************************)
\* handler i waits for a capability that has not completed
LinePending(i) == handlers[i].stage = "awaiting" /\ handlers[i].h.out.kind = "hang"

HttpPending(c) == conns[c].stage = "awaiting" /\ conns[c].h.out.kind = "hang"

\* a short request: the empty object, which names no method
PlainRequest == <<Tok("{"), Tok("}")>>

C18_PendingBlocksOnlyItsOwn ==
    alive =>
        /\ \A i \in 1..Len(handlers) :
              /\ (handlers[i].stage = "awaiting" /\ ~LinePending(i)) => ENABLED LineSettle(i)
              /\ handlers[i].stage = "ready" => \E j \in 1..i : ENABLED LineWrite(j)
        /\ (StdioListeners # {} /\ Len(linesIn) < MaxLines)
              => ENABLED ReadLine(PlainRequest, 1700000000, MaxLines)
        /\ \A c \in 1..Len(conns) :
              /\ (conns[c].stage = "awaiting" /\ ~HttpPending(c)) => ENABLED HttpSettle(c)
              /\ (conns[c].stage = "body" /\ conns[c].tosend = <<>> /\ Len(conns[c].body) <= 1)
                 => ENABLED HttpEnd(c, 1700000000)
        /\ \A s \in 1..Len(started) :
              (Listening(s) /\ Len(conns) < MaxConns)
              => \A head \in FewHeads : ENABLED HttpRequest(s, head, PlainRequest, MaxConns)

\* the second line was answered while the call of the first is still pending
C18_Witness ==
    /\ Len(handlers) >= 2
    /\ LinePending(1)
    /\ handlers[1].line = 1
    /\ handlers[2].line = 2
    /\ handlers[2].h.called = "kernel_info"
    /\ handlers[2].stage = "written"
    /\ stdout[1].handler = 2

(***************************************************************************)
(* C19. Each method name accepted over the wire maps to exactly one        *)
(* capability and each capability is reachable under exactly one wire      *)
(* name: a request that makes a capability run names the wire name of      *)
(* that capability (kernel_start for kernelStart, ...; health for health,  *)
(* which has no wrapper), and that request runs that capability once.      *)
(***************************************************************************)
\* the wire name of a capability
WireNameOf(cap) ==
    IF cap = "health" THEN "health" ELSE CHOOSE w \in WireNames : WireCap[w] = cap

C19_OneWireNamePerCapability ==
    \A i \in 1..Len(handlers) :
        handlers[i].h.calls # <<>> =>
            /\ Len(handlers[i].h.calls) = 1
            /\ Names(i, WireNameOf(handlers[i].h.calls[1].cap))

(***************************************************************************)
(* C20. With the base class, a kernelStart request for the kernel name k   *)
(* is answered with the result {instance: k}; in every kernel request the  *)
(* instance given in params is the instance argument the capability        *)
(* receives; and the same request text gets the same answer wherever it    *)
(* stands in the conversation (no instance state is kept).                 *)
(***************************************************************************)
KernelCaps == {"kernelStart", "kernelStop", "kernelInfo", "kernelPackages", "kernelExecute",
               "kernelEvaluate", "kernelList", "kernelGet", "kernelSet", "kernelRemove"}

\* the position of the parameter instance in the signature of a capability
InstancePos(cap) ==
    CASE cap \in {"kernelStop", "kernelInfo", "kernelPackages", "kernelList"} -> 1
      [] cap \in {"kernelExecute", "kernelEvaluate", "kernelGet", "kernelRemove"} -> 2
      [] OTHER -> 3

\* the kernel requests whose method is one of the names ms are threaded through
KernelThreaded(ms) ==
    \A i \in 1..Len(handlers) : \A m \in ms :
        LET params == Get(LineRequest(i), "params")
        IN  (plugin = BasePlugin /\ Names(i, m) /\ params.t = "obj") =>
                /\ (CapOf(m) = "kernelStart" /\ Get(params, "kernel").t = "str") =>
                      /\ Answered(i)
                      /\ IsSuccess(Response(i), JObj(<<Member("instance", Get(params, "kernel"))>>))
                /\ (CapOf(m) # "kernelStart" /\ Get(params, "instance").t = "str") =>
                      /\ handlers[i].h.calls # <<>>
                      /\ handlers[i].h.calls[1].cap = CapOf(m)
                      /\ handlers[i].h.calls[1].args[InstancePos(CapOf(m))] = Get(params, "instance")

\* the same text is handled the same way wherever it stands
Stateless ==
    \A i, j \in 1..Len(handlers) :
        linesIn[handlers[i].line] = linesIn[handlers[j].line] => handlers[i].h = handlers[j].h

KernelWireNames == {w \in WireNames : WireCap[w] \in KernelCaps}

C20_InstanceThreadedThrough == KernelThreaded(KernelCaps \cup KernelWireNames) /\ Stateless

(***************************************************************************)
(* C21. With the base class, a request naming a capability whose default   *)
(* is an empty answer gets a success envelope with that default:           *)
(* kernelPackages and kernelList the empty list, kernelGet null,           *)
(* assistantSystemPrompt the empty string, kernelEvaluate                  *)
(* {output: [], messages: []} and kernelExecute {outputs: [], messages:    *)
(* []}, whatever the params (any value under the capability name, any      *)
(* mapping under the wire name); the request {"id":"2","method":           *)
(* "kernelExecute","params":{"code":"1+1","instance":"k1"}} is answered    *)
(* with id "2" and result {outputs: [], messages: []}.                     *)
(***************************************************************************)
EmptyDefaultCaps == {"kernelPackages", "kernelList", "kernelGet", "assistantSystemPrompt",
                     "kernelEvaluate", "kernelExecute"}

EmptyDefault(cap) ==
    CASE cap \in {"kernelPackages", "kernelList"} -> JArr(<<>>)
      [] cap = "kernelGet" -> JNull
      [] cap = "assistantSystemPrompt" -> JStr("")
      [] cap = "kernelEvaluate" ->
            JObj(<<Member("output", JArr(<<>>)), Member("messages", JArr(<<>>))>>)
      [] OTHER -> JObj(<<Member("outputs", JArr(<<>>)), Member("messages", JArr(<<>>))>>)

C21_EmptyDefaults ==
    \A i \in 1..Len(handlers) :
        \A m \in EmptyDefaultCaps \cup {w \in WireNames : WireCap[w] \in EmptyDefaultCaps} :
            (/\ plugin = BasePlugin
             /\ Names(i, m)
             /\ (m \in Caps \/ Get(LineRequest(i), "params").t = "obj"))
            => /\ Answered(i)
               /\ IsSuccess(Response(i), EmptyDefault(CapOf(m)))
               /\ Get(Response(i), "id") = Get(LineRequest(i), "id")

C21_Witness ==
    \E i \in 1..Len(handlers) :
        /\ plugin = BasePlugin
        /\ linesIn[handlers[i].line] = ExecuteScenario
        /\ handlers[i].stage = "written"
        /\ Get(Envelope(stdout[1].text), "id") = JStr("2")
        /\ Get(Envelope(stdout[1].text), "result")
              = JObj(<<Member("outputs", JArr(<<>>)), Member("messages", JArr(<<>>))>>)

(***************************************************************************)
(* C22. Overriding a capability changes that capability only: on a class   *)
(* that overrides some capabilities, a request naming a capability it      *)
(* does not override (by capability name or wire name) is handled as the   *)
(* base class handles it, and a request naming an overridden capability    *)
(* by its wire name runs the overriding method and answers with its        *)
(* outcome.                                                                *)
(***************************************************************************)
\* the value an overriding method completes with, for the arguments args
OverridingValue(cap, args) ==
    IF plugin[cap] = "example" THEN ExampleOverride(cap, args).val ELSE Override(plugin[cap]).val

\* the overriding method completes with a value JSON can carry
OverrideReturns(cap, args) ==
    IF plugin[cap] = "example" THEN ExampleOverride(cap, args).kind = "ok"
    ELSE plugin[cap] \in {"undefined", "value"}

C22_OverrideChangesOnlyItself ==
    \A i \in 1..Len(handlers) :
        /\ \A m \in Caps \cup WireNames :
              (Names(i, m) /\ plugin[CapOf(m)] = "default") =>
                  \E now \in Clock :
                      handlers[i].h = handleRequest(BasePlugin, protocol, linesIn[handlers[i].line], now)
        /\ \A w \in WireNames :
              (/\ Names(i, w)
               /\ plugin[WireCap[w]] # "default"
               /\ Get(LineRequest(i), "params").t = "obj")
              => /\ handlers[i].h.calls = <<Call(WireCap[w], WireArgs(w, Get(LineRequest(i), "params")))>>
                 /\ OverrideReturns(WireCap[w], handlers[i].h.calls[1].args) =>
                       /\ Answered(i)
                       /\ HasField(Response(i), "result")
                       /\ Response(i) =
                             Envelope(successResponse(Get(LineRequest(i), "id"),
                                  OverridingValue(WireCap[w], handlers[i].h.calls[1].args)))

C22_Witness ==
    \E i \in 1..Len(handlers) :
        /\ plugin = ExamplePlugin
        /\ Names(i, "kernel_execute")
        /\ Get(LineRequest(i), "params") = FullParams
        /\ handlers[i].stage = "written"
        /\ Get(Envelope(stdout[1].text), "result")
              = JObj(<<Member("outputs", JArr(<<JStr("1+1")>>)), Member("messages", JArr(<<>>))>>)

(***************************************************************************)
(* C23. Round trip: for a result that is a JSON value, the success         *)
(* envelope written for (id, result) decodes to the same id and the same   *)
(* result; a result that is the empty string, zero or false comes back     *)
(* as itself, and a null or undefined result comes back as null.           *)
(***************************************************************************)
\* the envelope of a success with this id and result, before it is encoded
SuccessEnvelope(id, result) ==
    JObj(<<Member("jsonrpc", JStr("2.0")), Member("id", id), Member("result", result)>>)

C23_SuccessRoundTrip ==
    \A i \in 1..Len(handlers) :
        /\ \A id \in WireIds, v \in WireValues :
              /\ (plugin["kernelStart"] = "default"
                    /\ linesIn[handlers[i].line] = Req(id, JStr("kernel_start"), JObj(<<Member("kernel", v)>>)))
                 => /\ Answered(i)
                    /\ Response(i) = SuccessEnvelope(id, JObj(<<Member("instance", v)>>))
              /\ (plugin["kernelStart"] = "default"
                    /\ linesIn[handlers[i].line] = Req(id, JStr("kernelStart"), v))
                 => /\ Answered(i)
                    /\ Response(i) = SuccessEnvelope(id, JObj(<<Member("instance", v)>>))
        /\ \A v \in WireValues \cup {Undef} :
              Completed(i, v) =>
                  /\ Answered(i)
                  /\ Response(i) = SuccessEnvelope(Get(LineRequest(i), "id"), v)
                     \/ (Nullish(v) /\ Get(Response(i), "result") = JNull)
                     \/ ~HasField(LineRequest(i), "id")

C23_Witness ==
    \E i \in 1..Len(handlers) :
        /\ linesIn[handlers[i].line] =
              Req(JStr("7"), JStr("kernel_start"),
                  JObj(<<Member("kernel", JArr(<<JNum(1), JStr("a"), JNull, JArr(<<>>)>>))>>))
        /\ handlers[i].stage = "written"
        /\ Get(Envelope(stdout[1].text), "id") = JStr("7")
        /\ Get(Get(Envelope(stdout[1].text), "result"), "instance")
              = JArr(<<JNum(1), JStr("a"), JNull, JArr(<<>>)>>)

(***************************************************************************)
(* C24 (as stated). The line written for the request                       *)
(* {"id":"1","method":"health","params":{}} is the envelope with the       *)
(* members id and result and no other member.                              *)
(***************************************************************************)
HealthResult(now) == JObj(<<Member("timestamp", JNum(now)), Member("status", JStr("OK"))>>)

\* handler i handles the health scenario on a class that does not override health
HealthAsked(i) == linesIn[handlers[i].line] = HealthScenario /\ plugin["health"] = "default"

DispatchedWith(c, body) ==
    /\ conns[c].dispatched = 1
    /\ \E now \in Clock : conns[c].h = handleRequest(plugin, protocol, body, now)

C25_DispatchState ==
    \A c \in 1..Len(conns) :
        /\ conns[c].dispatched \in {0, 1}
        /\ ~PassesChecks(c) => conns[c].dispatched = 0 /\ conns[c].h = NotHandled
        /\ conns[c].stage = "body" => conns[c].dispatched = 0 /\ conns[c].h = NotHandled
        /\ conns[c].tosend # <<>> => conns[c].dispatched = 0
        /\ (PassesChecks(c) /\ conns[c].stage \in {"awaiting", "done"}) =>
              /\ conns[c].tosend = <<>>
              /\ conns[c].body = conns[c].sent
              /\ DispatchedWith(c, conns[c].sent)

\* the call happens in the step that ends the stream, and never again
C25_DispatchStep ==
    [][\A c \in 1..Len(conns) :
          conns'[c].dispatched # conns[c].dispatched =>
              /\ conns[c].dispatched = 0
              /\ conns[c].stage = "body"
              /\ conns[c].tosend = <<>>
              /\ conns'[c].body = conns[c].body]_vars

C25_DispatchedOnceAfterEnd == []C25_DispatchState /\ C25_DispatchStep

C25_Witness ==
    \E c \in 1..Len(conns) :
        /\ PassesChecks(c)
        /\ conns[c].nchunks = 2
        /\ conns[c].body = Req(JNum(2), JStr("kernel_get"), FullParams)
        /\ conns[c].dispatched = 1
        /\ conns[c].h.called = "kernel_get"
        /\ conns[c].stage = "done"

(***************************************************************************)
(* C26. Requests in flight at the same time do not touch each other: in    *)
(* every interleaving of their chunks a connection's body is the text of   *)
(* its own chunks, its dispatch is the dispatch of that text and its       *)
(* response is the outcome of that dispatch; a step changes one            *)
(* connection only; and the token of the environment and the token of      *)
(* every started server never change.                                      *)
(***************************************************************************)
C26_OwnChunks ==
    \A c \in 1..Len(conns) :
        /\ conns[c].body = conns[c].sent
        /\ conns[c].dispatched > 0 => DispatchedWith(c, conns[c].sent)
        /\ (conns[c].stage = "done" /\ conns[c].status = 200) =>
              conns[c].resBody = conns[c].h.out.val
        /\ (conns[c].stage = "done" /\ conns[c].status \in {401, 403, 405}) =>
              conns[c].resBody = RejectBody(HttpCheck(conns[c].head, started[conns[c].server].token))

C26_OneConnectionPerStep ==
    [][/\ \A c, d \in 1..Len(conns) :
             (conns'[c] # conns[c] /\ conns'[d] # conns[d]) => c = d
       /\ token' = token
       /\ \A s \in 1..Len(started) : started'[s] = started[s]]_vars

C26_ConnectionsIsolated == []C26_OwnChunks /\ C26_OneConnectionPerStep

\* one request still arriving while a later one, sent in two chunks, is answered
C26_Witness ==
    /\ Len(conns) = 2
    /\ conns[1].stage = "body" /\ conns[1].nchunks = 1 /\ conns[1].tosend # <<>>
    /\ conns[2].stage = "done" /\ conns[2].nchunks = 2 /\ conns[2].status = 200
    /\ conns[2].sent # conns[1].sent \o conns[1].tosend
    /\ token = Secret

(***************************************************************************)
(* C27. When the dispatcher's promise is rejected for an HTTP request      *)
(* that passed the checks (as for the body null), the request is answered  *)
(* 500 with the fixed body {jsonrpc "2.0", error {code -32603, message     *)
(* "Internal error"}, id null}; the step that answers it leaves the        *)
(* process running and every server listening, and requests that arrive    *)
(* later are handled.                                                      *)
(***************************************************************************)
\* the dispatcher's promise for connection c is rejected and the callback has answered
DispatchFailed(c) ==
    /\ conns[c].dispatched > 0
    /\ conns[c].stage = "done"
    /\ conns[c].h.out.kind # "ok"

C27_Answered500 ==
    \A c \in 1..Len(conns) :
        /\ (PassesChecks(c) /\ DispatchFailed(c)) =>
              /\ conns[c].status = 500
              /\ conns[c].resBody = FallbackBody
              /\ ErrorCode(HttpResponse(c)) = JNum(-32603)
              /\ ErrorMessage(HttpResponse(c)) = JStr("Internal error")
              /\ Get(HttpResponse(c), "id") = JNull
              /\ ~HasField(HttpResponse(c), "result")
        /\ (PassesChecks(c) /\ conns[c].sent = <<Tok("null")>> /\ conns[c].stage = "done")
              => DispatchFailed(c) /\ conns[c].status = 500
        /\ conns[c].status = 500 => DispatchFailed(c)

C27_StillServing ==
    [][\A c \in 1..Len(conns) :
          (conns[c].status # 500 /\ conns'[c].status = 500) =>
              /\ alive'
              /\ started' = started
              /\ \A d \in 1..Len(conns) : d # c => conns'[d] = conns[d]]_vars

C27_FailureAnswered500 == []C27_Answered500 /\ C27_StillServing

\* a request arriving after the 500 is dispatched and answered
C27_Witness ==
    /\ alive
    /\ Len(conns) = 2
    /\ PassesChecks(1) /\ conns[1].sent = <<Tok("null")>>
    /\ conns[1].status = 500 /\ conns[1].resBody = FallbackBody
    /\ conns[2].server = conns[1].server
    /\ conns[2].sent = Req(JNum(1), JStr("health"), JObj(<<>>))
    /\ conns[2].nchunks = 2
    /\ conns[2].status = 200

(***************************************************************************)
(* C28. A request under a wire name whose params is not null or absent     *)
(* calls the method's capability once, with the named members of params    *)
(* as positional arguments in the method's fixed order - kernel_start      *)
(* (kernel); kernel_stop, kernel_info, kernel_packages, kernel_list        *)
(* (instance); kernel_execute, kernel_evaluate (code, instance);           *)
(* kernel_get, kernel_remove (name, instance); kernel_set (name, value,    *)
(* instance); assistant_system_prompt, assistant_perform_task (task,       *)
(* options, assistant) - and with no other argument.                       *)
(***************************************************************************)
ArgumentOrder(m) ==
    CASE m = "kernel_start" -> <<"kernel">>
      [] m \in {"kernel_stop", "kernel_info", "kernel_packages", "kernel_list"} -> <<"instance">>
      [] m \in {"kernel_execute", "kernel_evaluate"} -> <<"code", "instance">>
      [] m \in {"kernel_get", "kernel_remove"} -> <<"name", "instance">>
      [] m = "kernel_set" -> <<"name", "value", "instance">>
      [] OTHER -> <<"task", "options", "assistant">>

C28_PositionalArguments ==
    \A i \in 1..Len(handlers) :
        \A m \in WireNames :
            (Names(i, m) /\ ~Nullish(Get(LineRequest(i), "params"))) =>
                LET params == Get(LineRequest(i), "params")
                    order == ArgumentOrder(m)
                    calls == handlers[i].h.calls
                IN  /\ Len(calls) = 1
                    /\ calls[1].cap = WireCap[m]
                    /\ \A k \in DOMAIN calls[1].args :
                          calls[1].args[k] =
                              IF k <= Len(order) THEN Get(params, order[k]) ELSE Undef

C28_Witness ==
    \E i \in 1..Len(handlers) :
        /\ linesIn[handlers[i].line] = Req(JNum(1), JStr("kernel_set"), FullParams)
        /\ handlers[i].h.calls = <<Call("kernelSet", <<JStr("x"), JNum(42), JStr("i1")>>)>>
        /\ handlers[i].stage = "written"

(***************************************************************************)
(* C29. No retries: a request is dispatched once; the capability its       *)
(* method resolves to runs once, and no capability runs when the method    *)
(* does not resolve, whether the run succeeds or fails; and a request      *)
(* whose handling failed is answered exactly once, with a failure          *)
(* envelope on the line transport or an error status over HTTP.            *)
(***************************************************************************)
\* the capability methods that ran for a dispatch with outcome h
Invocations(h) == Len(h.calls)

\* the method of the dispatch with outcome h is a capability or a wrapper that
\* could unpack its params
Resolves(h, params) ==
    \/ h.called \in Caps
    \/ h.called \in WireNames /\ ~Nullish(params)

\* one dispatch per request, and one run of the capability per dispatch
C29_InvokedOncePerDispatch ==
    /\ \A i \in 1..Len(handlers) :
          /\ Invocations(handlers[i].h) <= 1
          /\ Resolves(handlers[i].h, Get(LineRequest(i), "params"))
                => Invocations(handlers[i].h) = 1
          /\ handlers[i].h.called = "" => Invocations(handlers[i].h) = 0
          /\ Cardinality(Answers(i)) <= 1
    /\ \A c \in 1..Len(conns) :
          /\ conns[c].dispatched <= 1
          /\ Invocations(conns[c].h) <= 1
          /\ (conns[c].dispatched = 1 /\ Resolves(conns[c].h, Get(HttpRequestValue(c), "params")))
                => Invocations(conns[c].h) = 1
          /\ conns[c].h.called = "" => Invocations(conns[c].h) = 0

\* the handling of a request that failed has ended with one failure answer
C29_FailedAnsweredOnce ==
    /\ \A i \in 1..Len(handlers) :
          (Finished(i) /\ ~(handlers[i].h.out.kind = "ok" /\ HasField(Response(i), "result"))) =>
              /\ handlers[i].stage = "written"
              /\ Cardinality(Answers(i)) = 1
              /\ HasField(Output(i), "error")
    /\ \A c \in 1..Len(conns) :
          (conns[c].stage = "done" /\ conns[c].dispatched = 1 /\ conns[c].h.out.kind # "ok") =>
              conns[c].status = 500

C29_NoRetries == C29_InvokedOncePerDispatch /\ C29_FailedAnsweredOnce

(***************************************************************************)
(* C30. run starts exactly one transport: the line transport when          *)
(* STENCILA_TRANSPORT is stdio, the HTTP server on the configured port     *)
(* with the configured token when it is http; for any other selector, or   *)
(* none, it starts no transport and fails with the error                   *)
(* "Unknown protocol: <selector>", and no line or request is ever handled. *)
(***************************************************************************)
\* the step run takes, from the state after construction
C30_RunStep ==
    [][(started = <<>> /\ stderr = <<>> /\ (started' # <<>> \/ stderr' # <<>>)) =>
          CASE protocol = "stdio" ->
                  started' = <<Server("stdio", "", Undef)>> /\ stderr' = <<>> /\ alive'
            [] protocol = "http" ->
                  started' = <<Server("http", "env", token)>> /\ stderr' = <<>> /\ alive'
            [] OTHER ->
                  /\ started' = <<>>
                  /\ stderr' = <<"Error: Unknown protocol: " \o protocol>>
                  /\ ~alive']_vars

C30_TransportOfSelector ==
    /\ started # <<>> =>
          /\ protocol \in {"stdio", "http"}
          /\ started[1].t = protocol
          /\ started[1].token = (IF protocol = "http" THEN token ELSE Undef)
    /\ protocol = "stdio" => conns = <<>>
    /\ protocol = "http" => linesIn = <<>> /\ handlers = <<>>
    /\ protocol \notin {"stdio", "http"} =>
          /\ started = <<>> /\ linesIn = <<>> /\ handlers = <<>> /\ conns = <<>> /\ stdout = <<>>
          /\ stderr \in {<<>>, <<"Error: Unknown protocol: " \o protocol>>}

C30_OneTransportStarted == []C30_TransportOfSelector /\ C30_RunStep

\* the selector is missing: run has failed and nothing was started
C30_Witness ==
    /\ protocol = "undefined"
    /\ stderr = <<"Error: Unknown protocol: undefined">>
    /\ started = <<>>
    /\ ~alive

(***************************************************************************)
(* C31. A server whose token is undefined, the empty string or a string    *)
(* with a space never forwards a request to the dispatcher: whatever the   *)
(* Authorization header, a request from an address that is not loopback    *)
(* is answered 401 "Invalid or missing token" (one from loopback 403),     *)
(* and its body is never read.                                             *)
(***************************************************************************)
\* the tokens no header field can equal
UnusableTokens == {Undef, JStr(""), JStr("a b")}

C31_UnusableTokenRejectsAll ==
    \A c \in 1..Len(conns) :
        started[conns[c].server].token \in UnusableTokens =>
            /\ conns[c].dispatched = 0
            /\ conns[c].h = NotHandled
            /\ conns[c].body = <<>>
            /\ conns[c].stage = "done"
            /\ ~FromLoopback(c) =>
                  /\ conns[c].status = 401
                  /\ conns[c].resBody = JStr("Invalid or missing token")
            /\ FromLoopback(c) => conns[c].status = 403

\* the header "Bearer a b" against the token "a b"
C31_Witness ==
    \E c \in 1..Len(conns) :
        /\ started[conns[c].server].token = JStr("a b")
        /\ conns[c].head = ReqHead("10.0.0.5", Auth(<<"Bearer", "a", "b">>), "POST", "application/json")
        /\ conns[c].status = 401
        /\ conns[c].tosend # <<>>

(***************************************************************************)
(* C32. With a usable secret, a request from an address that is not        *)
(* loopback passes the token check exactly when the first field of its     *)
(* Authorization header is Bearer, written so, and the second field is     *)
(* the secret: fields after the second are not looked at, while a header   *)
(* with another first field (bearer, Basic), with two spaces after Bearer  *)
(* (an empty second field) or with no second field is answered 401.        *)
(***************************************************************************)
\* the fields of the Authorization header of connection c (none when it is absent)
AuthFields(c) == IF conns[c].head.auth.present THEN conns[c].head.auth.fields ELSE <<>>

C32_SecondFieldCaseSensitive ==
    \A c \in 1..Len(conns) :
        (started[conns[c].server].token = Secret /\ ~FromLoopback(c)) =>
            LET f == AuthFields(c)
            IN  /\ (Len(f) >= 2 /\ f[1] = "Bearer" /\ JStr(f[2]) = Secret)
                      => conns[c].status # 401
                /\ (Len(f) >= 1 /\ f[1] # "Bearer") => conns[c].status = 401
                /\ (Len(f) >= 2 /\ f[2] # "s3cret") => conns[c].status = 401
                /\ Len(f) <= 1 => conns[c].status = 401
                /\ conns[c].status = 401 =>
                      /\ conns[c].dispatched = 0
                      /\ conns[c].resBody = JStr("Invalid or missing token")

\* "Bearer s3cret extra" is accepted and the request dispatched
C32_Witness ==
    \E c \in 1..Len(conns) :
        /\ started[conns[c].server].token = Secret
        /\ conns[c].head = ReqHead("10.0.0.5", Auth(<<"Bearer", "s3cret", "extra">>), "POST",
                                   "application/json")
        /\ conns[c].dispatched = 1
        /\ conns[c].status = 200

(***************************************************************************)
(* C33. A request object that names a snake_case wire method and has no    *)
(* member params is answered with one failure envelope with code -32603    *)
(* and the request's id, and the method's capability does not run; the     *)
(* same request under the camelCase name of the capability runs the        *)
(* capability with undefined as its first argument.                        *)
(***************************************************************************)
NoParams(i) == LineRequest(i).t = "obj" /\ ~HasField(LineRequest(i), "params")

C33_MissingParams ==
    \A i \in 1..Len(handlers) :
        \A m \in WireNames :
            /\ (Names(i, m) /\ NoParams(i)) =>
                  /\ Answered(i)
                  /\ IsFailure(Response(i), -32603)
                  /\ Get(Response(i), "id") = Get(LineRequest(i), "id")
                  /\ handlers[i].h.calls = <<>>
                  /\ handlers[i].stage \in {"ready", "written"}
                  /\ Cardinality(Answers(i)) <= 1
            /\ (Names(i, WireCap[m]) /\ NoParams(i)) =>
                  handlers[i].h.calls = <<Call(WireCap[m], <<Undef, Undef, Undef>>)>>

C33_Witness ==
    \E i \in 1..Len(handlers) :
        /\ linesIn[handlers[i].line] = Req(JNum(1), JStr("kernel_stop"), Undef)
        /\ handlers[i].stage = "written"
        /\ Len(stdout) = 1
        /\ ErrorCode(Envelope(stdout[1].text)) = JNum(-32603)
        /\ Get(Envelope(stdout[1].text), "id") = JNum(1)
        /\ handlers[i].h.calls = <<>>

====
